---- MODULE Spec2Model ----
(***************************************************************************)
(* Movie cataloging dashboard: the OMDb metadata client                    *)
(* (api_handlers/omdb_handler.py), the SQLite catalog store                *)
(* (database/movie_database.py) and the classification engine              *)
(* (classifier/movie_classifier.py).                                       *)
(*                                                                         *)
(* Python strings are sequences of tokens (a token is one character or an  *)
(* unbroken run of characters that no operation of the program looks       *)
(* into).  A Python value that may be None, or a dict key that may be      *)
(* missing, is a tagged record [k, s].  Floats are fixed-point integers in *)
(* hundredths.                                                             *)
(***************************************************************************)
EXTENDS Integers, Sequences, FiniteSets, TLC

VARIABLES
    movies,            \* rows of table movies
    seq_movies,        \* AUTOINCREMENT counter of table movies
    watchlists,        \* rows of table watchlists
    seq_watchlists,    \* AUTOINCREMENT counter of table watchlists
    watchlist_items,   \* rows of table watchlist_items
    seq_items,         \* AUTOINCREMENT counter of table watchlist_items
    clock,             \* CURRENT_TIMESTAMP, in whole seconds
    processed_movies,  \* MovieGenreClassifier.processed_movies
    classified_movies, \* classify_movies: the genre map being built / returned
    pc,                \* "idle", or "running" inside classify_movies
    movie_titles,      \* classify_movies: the argument of the call in progress / last call
    progress_callback, \* classify_movies: whether a callback was passed
    i,                 \* classify_movies: number of completed loop iterations
    responses,         \* what the provider answered to each request of the batch
    batch_movies,      \* st.session_state.batch_movies: the titles the user entered
    session,           \* main.py: st.session_state of the login, and the screen rendered
    events,            \* observable events of the batch: callbacks, requests, sleeps
    last               \* the most recent operation: name, arguments, return value

vars == <<movies, seq_movies, watchlists, seq_watchlists, watchlist_items, seq_items,
          clock, processed_movies, classified_movies, pc, movie_titles,
          progress_callback, i, responses, batch_movies, session, events, last>>

dbVars == <<movies, seq_movies, watchlists, seq_watchlists, watchlist_items, seq_items>>

\* the pages' session state
uiVars == <<batch_movies, session>>

\* the engine, and the pages that drive it
engineVars == <<processed_movies, classified_movies, pc, movie_titles,
                progress_callback, i, responses, uiVars, events>>

-----------------------------------------------------------------------------
(* Bounds of the model *)

MaxBatch == 2
MaxStored == 2
MaxInserts == 4
MaxStatBatch == 2
MaxTopBatch == 6
MaxClock == 2
MaxRaw == 3

-----------------------------------------------------------------------------
(* Python values *)

Str(s) == [k |-> "str", s |-> s]
None == [k |-> "none", s |-> <<>>]
Absent == [k |-> "absent", s |-> <<>>]

\* truth value of a str-or-None in a Python condition
Truthy(v) == v.k = "str" /\ v.s # <<>>

\* dict.get(key, default) and dict.get(key)
Get(d, key, default) == IF d[key].k = "absent" THEN default ELSE d[key]
Get1(d, key) == Get(d, key, None)

Whitespace == {" ", "\t", "\n"}

RECURSIVE LStrip(_)
LStrip(s) ==
    IF s # <<>> /\ Head(s) \in Whitespace THEN LStrip(Tail(s)) ELSE s

RECURSIVE RStrip(_)
RStrip(s) ==
    IF s # <<>> /\ s[Len(s)] \in Whitespace THEN RStrip(SubSeq(s, 1, Len(s) - 1)) ELSE s

\* str.strip()
Strip(s) == RStrip(LStrip(s))

\* str.find(sep) + 1: the first position where sep occurs in s, 0 when it does not
IndexOf(s, sep) ==
    LET hits == {p \in 1..(Len(s) - Len(sep) + 1) : SubSeq(s, p, p + Len(sep) - 1) = sep}
    IN  IF hits = {} THEN 0 ELSE CHOOSE p \in hits : \A q \in hits : p <= q

\* str.split(sep), sep non-empty
RECURSIVE Split(_, _)
Split(s, sep) ==
    LET p == IndexOf(s, sep)
    IN  IF p = 0 THEN <<s>>
        ELSE <<SubSeq(s, 1, p - 1)>> \o Split(SubSeq(s, p + Len(sep), Len(s)), sep)

\* sep.join(parts)
RECURSIVE Join(_, _)
Join(parts, sep) ==
    IF parts = <<>> THEN <<>>
    ELSE IF Len(parts) = 1 THEN parts[1]
    ELSE parts[1] \o sep \o Join(Tail(parts), sep)

\* str.replace(old, new): every non-overlapping occurrence, left to right
Replace(s, old, new) == Join(Split(s, old), new)

Digits == {"0", "1", "2", "3", "4", "5", "6", "7", "8", "9"}

DigitVal(c) ==
    CASE c = "0" -> 0 [] c = "1" -> 1 [] c = "2" -> 2 [] c = "3" -> 3 [] c = "4" -> 4
      [] c = "5" -> 5 [] c = "6" -> 6 [] c = "7" -> 7 [] c = "8" -> 8 [] c = "9" -> 9

RECURSIVE DigitsVal(_)
DigitsVal(s) == IF s = <<>> THEN 0 ELSE DigitsVal(SubSeq(s, 1, Len(s) - 1)) * 10 + DigitVal(s[Len(s)])

AllDigits(s) == \A p \in 1..Len(s) : s[p] \in Digits

\* float(s) for an unsigned decimal literal: [ok, v] with v in hundredths;
\* ok = FALSE stands for ValueError
ParseFloat(s) ==
    LET t == Strip(s)
        p == IndexOf(t, <<".">>)
        ip == IF p = 0 THEN t ELSE SubSeq(t, 1, p - 1)
        fp == IF p = 0 THEN <<>> ELSE SubSeq(t, p + 1, Len(t))
        f2 == SubSeq(fp \o <<"0", "0">>, 1, 2)
    IN  IF AllDigits(ip) /\ AllDigits(fp) /\ (ip # <<>> \/ fp # <<>>)
        THEN [ok |-> TRUE, v |-> DigitsVal(ip) * 100 + DigitsVal(f2)]
        ELSE [ok |-> FALSE, v |-> 0]

-----------------------------------------------------------------------------
(* The metadata provider: what one HTTP request can come back with *)

EnDash == "<U+2013>"

EmptyBody ==
    [Response |-> Absent, Title |-> Absent, Genre |-> Absent, Year |-> Absent,
     Plot |-> Absent, imdbRating |-> Absent, imdbVotes |-> Absent, Director |-> Absent,
     Actors |-> Absent, Runtime |-> Absent, BoxOffice |-> Absent, Poster |-> Absent,
     Metascore |-> Absent, imdbID |-> Absent, Error |-> Absent]

BodyMatrix ==
    [EmptyBody EXCEPT
        !.Response = Str(<<"True">>),
        !.Title = Str(<<"The", " ", "Matrix">>),
        !.Genre = Str(<<"Action", ",", " ", "Adventure">>),
        !.Year = Str(<<"1999">>),
        !.Plot = Str(<<"A hacker learns the truth.">>),
        !.imdbRating = Str(<<"8", ".", "7">>),
        !.imdbVotes = Str(<<"2", ",", "100", ",", "000">>),
        !.Director = Str(<<"Lana Wachowski">>),
        !.Actors = Str(<<"Keanu Reeves">>),
        !.Runtime = Str(<<"136 min">>),
        !.BoxOffice = Str(<<"$172,076,928">>),
        !.Poster = Str(<<"https://img/matrix.jpg">>),
        !.Metascore = Str(<<"73">>),
        !.imdbID = Str(<<"tt0133093">>)]

\* the same title and year as BodyMatrix, every other field different or missing
BodyMatrixAlt ==
    [EmptyBody EXCEPT
        !.Response = Str(<<"True">>),
        !.Title = Str(<<"The", " ", "Matrix">>),
        !.Year = Str(<<"1999">>),
        !.imdbRating = Str(<<"N/A">>),
        !.Director = Str(<<"N/A">>)]

\* no Title in the answer, a year range, genres outside the recognized set
BodySeries ==
    [EmptyBody EXCEPT
        !.Response = Str(<<"True">>),
        !.Genre = Str(<<"Drama", ",", " ", "Biography", ",", " ", "Sci-Fi">>),
        !.Year = Str(<<"2010", EnDash, "2012">>),
        !.Plot = Str(<<"A chemistry teacher.">>),
        !.imdbRating = Str(<<"9", ".", "0">>),
        !.imdbVotes = Str(<<"900">>),
        !.imdbID = Str(<<"tt0903747">>)]

\* the literal genre name Unknown next to a recognized one
BodyOdd ==
    [EmptyBody EXCEPT
        !.Response = Str(<<"True">>),
        !.Title = Str(<<"Odd">>),
        !.Genre = Str(<<"Unknown", ",", " ", "Comedy">>),
        !.Year = Str(<<"2001">>),
        !.imdbRating = Str(<<"6", ".", "9", "9">>)]

BodyNotFound ==
    [EmptyBody EXCEPT
        !.Response = Str(<<"False">>),
        !.Error = Str(<<"Movie not found!">>)]

Ok(body) == [status |-> "ok", body |-> body]
Failed(how) == [status |-> how, body |-> EmptyBody]

\* requests.get raising (connection error, timeout), raise_for_status raising
\* (non-2xx), response.json() raising (body is not JSON)
TransportFailures ==
    {Failed("connection_error"), Failed("timeout"), Failed("http_error"), Failed("bad_json")}

\* the provider answered 200 and reports no match
NoMatchAnswers == {Ok(BodyNotFound), Ok(EmptyBody)}

FoundAnswers == {Ok(BodyMatrix), Ok(BodyMatrixAlt), Ok(BodySeries), Ok(BodyOdd)}

\* what the engine's batches are run against
ProviderAnswers == FoundAnswers \cup {Ok(BodyNotFound), Failed("timeout")}

\* what the engine's single searches are run against
SingleAnswers == {Ok(BodyMatrixAlt), Ok(BodyNotFound), Failed("timeout")}

-----------------------------------------------------------------------------
(* api_handlers/omdb_handler.py *)

\* the Optional[Dict] search_movie returns: None is [some |-> FALSE]
NoData == [some |-> FALSE, data |-> EmptyBody]
SomeData(body) == [some |-> TRUE, data |-> body]

\* variant of search_movie that returns the body without looking at Response
search_movie_AnyBody(movie_title, answer) ==
    IF answer.status # "ok" THEN NoData ELSE SomeData(answer.body)

search_movie(movie_title, answer) ==
    IF answer.status # "ok" THEN NoData            \* except ...: warning, return None
    ELSE IF answer.body.Response = Str(<<"True">>) THEN SomeData(answer.body)
    ELSE NoData

PlaceholderRecord(movie_title) ==
    [omdb |-> NoData,
     title |-> Str(movie_title),
     genres |-> <<(<<"Unknown">>)>>,
     year |-> Str(<<"Unknown">>),
     overview |-> Str(<<"No information available">>),
     rating |-> None,
     votes |-> Str(<<"0">>),
     director |-> Str(<<"Unknown">>),
     actors |-> Str(<<"Unknown">>),
     runtime |-> Str(<<"Unknown">>),
     box_office |-> Str(<<"Unknown">>),
     poster |-> Str(<<>>),
     metascore |-> Str(<<"N/A">>),
     imdb_id |-> Str(<<>>),
     omdb_link |-> Str(<<>>),
     source |-> "Not Found"]

\* variant of NormalizeGenres that splits on the comma alone
NormalizeGenres_SplitComma(d) ==
    IF Truthy(Get1(d, "Genre")) THEN Split(Get(d, "Genre", Str(<<>>)).s, <<",">>) ELSE <<>>

NormalizeGenres(d) ==
    IF Truthy(Get1(d, "Genre")) THEN Split(Get(d, "Genre", Str(<<>>)).s, <<",", " ">>) ELSE <<>>

NormalizeYear(d) ==
    Str(Split(Replace(Get(d, "Year", Str(<<"Unknown">>)).s, <<EnDash>>, <<>>), <<EnDash>>)[1])

NormalizeVotes(d) == Str(Replace(Get(d, "imdbVotes", Str(<<"0">>)).s, <<",">>, <<>>))

OmdbLink(d) ==
    IF Truthy(Get1(d, "imdbID"))
    THEN Str(<<"https://www.imdb.com/title/">> \o Get(d, "imdbID", Str(<<>>)).s)
    ELSE Str(<<>>)

FoundRecord(movie_title, d) ==
    [omdb |-> SomeData(d),
     title |-> Get(d, "Title", Str(movie_title)),
     genres |-> NormalizeGenres(d),
     year |-> NormalizeYear(d),
     overview |-> Get(d, "Plot", Str(<<>>)),
     rating |-> Get1(d, "imdbRating"),
     votes |-> NormalizeVotes(d),
     director |-> Get(d, "Director", Str(<<"Unknown">>)),
     actors |-> Get(d, "Actors", Str(<<"Unknown">>)),
     runtime |-> Get(d, "Runtime", Str(<<"Unknown">>)),
     box_office |-> Get(d, "BoxOffice", Str(<<"Unknown">>)),
     poster |-> Get(d, "Poster", Str(<<>>)),
     metascore |-> Get(d, "Metascore", Str(<<"N/A">>)),
     imdb_id |-> Get(d, "imdbID", Str(<<>>)),
     omdb_link |-> OmdbLink(d),
     source |-> "OMDb"]

get_movie_data(movie_title, answer) ==
    LET omdb_data == search_movie(movie_title, answer)
    IN  IF omdb_data.some THEN FoundRecord(movie_title, omdb_data.data)
        ELSE PlaceholderRecord(movie_title)

-----------------------------------------------------------------------------
(* database/movie_database.py: the three tables and their statements.      *)
(* A table is the set of its rows.  Foreign keys are declared but SQLite   *)
(* enforces them only under PRAGMA foreign_keys = ON, which the program    *)
(* never issues.  A connection closed without commit rolls back.           *)

\* sqlite3 raising something else than IntegrityError inside a statement or commit
Faults == {"none", "io_error"}

RetId(n) == [none |-> FALSE, id |-> n]
RetNone == [none |-> TRUE, id |-> 0]

\* the rating bound to column rating REAL: [ok, v]; ok = FALSE when float() raises
RatingParam(movie_data) ==
    IF Truthy(movie_data.rating) /\ movie_data.rating # Str(<<"N/A">>)
    THEN ParseFloat(movie_data.rating.s)
    ELSE [ok |-> TRUE, v |-> 0]

\* the row INSERT OR REPLACE writes for movie_data
MovieRow(id, movie_data, now) ==
    [id |-> id,
     title |-> movie_data.title,
     year |-> movie_data.year,
     genres |-> Str(Join(movie_data.genres, <<",", " ">>)),
     rating |-> RatingParam(movie_data).v,
     director |-> movie_data.director,
     actors |-> movie_data.actors,
     runtime |-> movie_data.runtime,
     overview |-> movie_data.overview,
     poster_url |-> movie_data.poster,
     imdb_id |-> movie_data.imdb_id,
     date_added |-> now]

\* variant of MovieConflicts for a table without UNIQUE(title, year)
MovieConflicts_NoUnique(rows, title, year) == {}

\* rows that collide with (title, year) under UNIQUE(title, year); NULLs never collide
MovieConflicts(rows, title, year) ==
    {r \in rows : title.k = "str" /\ year.k = "str" /\ r.title = title /\ r.year = year}

\* variant of add_movie on a connection in autocommit mode: the row is written
\* before the failure is raised, and nothing rolls it back
add_movie_NoRollback(movie_data, fault) ==
    LET id == seq_movies + 1
        written == (movies \ MovieConflicts(movies, movie_data.title, movie_data.year))
                       \cup {MovieRow(id, movie_data, clock)}
    IN  IF ~RatingParam(movie_data).ok \/ movie_data.title.k # "str"
        THEN [movies |-> movies, seq_movies |-> seq_movies, ret |-> RetNone]
        ELSE IF fault # "none"
        THEN [movies |-> written, seq_movies |-> id, ret |-> RetNone]
        ELSE [movies |-> written, seq_movies |-> id, ret |-> RetId(id)]

\* add_movie: the tables after the call and its return value
add_movie(movie_data, fault) ==
    IF fault # "none" \/ ~RatingParam(movie_data).ok \/ movie_data.title.k # "str"
    THEN [movies |-> movies, seq_movies |-> seq_movies, ret |-> RetNone]
    ELSE LET id == seq_movies + 1
         IN  [movies |-> (movies \ MovieConflicts(movies, movie_data.title, movie_data.year))
                            \cup {MovieRow(id, movie_data, clock)},
              seq_movies |-> id,
              ret |-> RetId(id)]

WatchlistRow(id, name, description, now) ==
    [id |-> id, name |-> name, description |-> description, created_date |-> now]

\* variant of create_watchlist_ok for a name column without UNIQUE
create_watchlist_ok_NoUnique(name) == name.k = "str"

\* create_watchlist: IntegrityError on a NULL or duplicate name
create_watchlist_ok(name) ==
    name.k = "str" /\ \A w \in watchlists : w.name # name

ItemRow(id, watchlist_id, movie_id, now) ==
    [id |-> id, watchlist_id |-> watchlist_id, movie_id |-> movie_id, added_date |-> now]

\* variant of add_to_watchlist_ok for a table without UNIQUE(watchlist_id, movie_id)
add_to_watchlist_ok_NoUnique(watchlist_id, movie_id) == TRUE

\* add_to_watchlist: IntegrityError on a duplicate (watchlist_id, movie_id)
add_to_watchlist_ok(watchlist_id, movie_id) ==
    \A it \in watchlist_items : ~(it.watchlist_id = watchlist_id /\ it.movie_id = movie_id)

\* variant of delete_watchlist_items that leaves the membership rows behind
delete_watchlist_items_None(watchlist_id) == watchlist_items

\* delete_watchlist: the two DELETE statements
delete_watchlist_items(watchlist_id) ==
    {it \in watchlist_items : it.watchlist_id # watchlist_id}

delete_watchlist_row(watchlist_id) ==
    {w \in watchlists : w.id # watchlist_id}

\* get_watchlists: the rows of the LEFT JOIN ... GROUP BY w.id, each with its COUNT
get_watchlists ==
    {[id |-> w.id, name |-> w.name, description |-> w.description,
      created_date |-> w.created_date,
      movie_count |-> Cardinality({it \in watchlist_items : it.watchlist_id = w.id})]
        : w \in watchlists}

\* get_watchlist_movies: the movies rows the JOIN yields, one per joined item
get_watchlist_movies(watchlist_id) ==
    {m \in movies : \E it \in watchlist_items :
                        it.watchlist_id = watchlist_id /\ it.movie_id = m.id}

\* get_all_movies: the rows of SELECT * FROM movies
get_all_movies == movies

-----------------------------------------------------------------------------
(* classifier/movie_classifier.py *)

default_genres ==
    << <<"Action">>, <<"Adventure">>, <<"Animation">>, <<"Comedy">>, <<"Crime">>,
       <<"Documentary">>, <<"Drama">>, <<"Family">>, <<"Fantasy">>, <<"History">>,
       <<"Horror">>, <<"Music">>, <<"Mystery">>, <<"Romance">>, <<"Science Fiction">>,
       <<"Thriller">>, <<"War">>, <<"Western">>, <<"Unknown">> >>

Range(f) == {f[x] : x \in DOMAIN f}

UnknownGenre == <<"Unknown">>

\* classified_movies = {genre: [] for genre in self.default_genres}
EmptyGenreMap == [g \in Range(default_genres) |-> <<>>]

\* the value of classified_movies before the first call: no map
NoMap == [g \in {} |-> <<>>]

\* variant of ShouldStore that stores whatever the lookup returned
ShouldStore_Always(movie_data) == TRUE

\* movie_data and movie_data.get('source') != 'Not Found'
ShouldStore(movie_data) == movie_data.source # "Not Found"

\* not genres or genres == ['Unknown']
NoGenres(genres) == genres = <<>> \/ genres = <<UnknownGenre>>

\* variant of FileByGenre that drops the genres the map has no key for
RECURSIVE FileByGenre_NoFallback(_, _, _)
FileByGenre_NoFallback(map, genres, ref) ==
    IF genres = <<>> THEN map
    ELSE LET genre == Head(genres)
         IN  FileByGenre_NoFallback(
                 IF genre \in DOMAIN map THEN [map EXCEPT ![genre] = Append(@, ref)] ELSE map,
                 Tail(genres), ref)

\* for genre in genres: append to the genre's bucket, or to Unknown
RECURSIVE FileByGenre(_, _, _)
FileByGenre(map, genres, ref) ==
    IF genres = <<>> THEN map
    ELSE LET genre == Head(genres)
             key == IF genre \in DOMAIN map THEN genre ELSE UnknownGenre
         IN  FileByGenre([map EXCEPT ![key] = Append(@, ref)], Tail(genres), ref)

\* "Add to genre categories": a bucket holds references to the dicts of
\* processed_movies, written as their positions in that list
Classify(map, movie_data, ref) ==
    IF NoGenres(movie_data.genres)
    THEN [map EXCEPT ![UnknownGenre] = Append(@, ref)]
    ELSE FileByGenre(map, movie_data.genres, ref)

\* variant of IsRated that takes a rating of zero for a missing one
IsRated_ZeroIsMissing(movie) ==
    /\ movie.source # "Not Found" /\ Truthy(movie.rating) /\ movie.rating # Str(<<"N/A">>)
    /\ ParseFloat(movie.rating.s).v # 0

\* variant of IsRated without the test for 'N/A'
IsRated_IgnoresNA(movie) ==
    movie.source # "Not Found" /\ Truthy(movie.rating)

\* the condition of "Rating analysis" and of rated_movies
IsRated(movie) ==
    movie.source # "Not Found" /\ Truthy(movie.rating) /\ movie.rating # Str(<<"N/A">>)

\* positions, in list order, of the movies that satisfy IsRated
RECURSIVE RatedRefs(_, _)
RatedRefs(pm, from) ==
    IF from > Len(pm) THEN <<>>
    ELSE (IF IsRated(pm[from]) THEN <<from>> ELSE <<>>) \o RatedRefs(pm, from + 1)

RatingOf(movie) == ParseFloat(movie.rating.s)

\* rating_data: the ratings float() accepted, in list order (try ... except: pass)
RECURSIVE RatingData(_, _)
RatingData(pm, refs) ==
    IF refs = <<>> THEN <<>>
    ELSE (IF RatingOf(pm[Head(refs)]).ok THEN <<RatingOf(pm[Head(refs)]).v>> ELSE <<>>)
            \o RatingData(pm, Tail(refs))

RECURSIVE Sum(_)
Sum(xs) == IF xs = <<>> THEN 0 ELSE Head(xs) + Sum(Tail(xs))

\* variant of RatingCategory whose lower bounds are exclusive
RatingCategory_ExclusiveLower(rating) ==
    IF rating > 900 THEN "Excellent (9-10)"
    ELSE IF rating > 700 THEN "Good (7-8.9)"
    ELSE IF rating > 500 THEN "Average (5-6.9)"
    ELSE IF rating > 300 THEN "Poor (3-4.9)"
    ELSE "Bad (0-2.9)"

\* the if/elif chain of "Categorize ratings", on hundredths
RatingCategory(rating) ==
    IF rating >= 900 THEN "Excellent (9-10)"
    ELSE IF rating >= 700 THEN "Good (7-8.9)"
    ELSE IF rating >= 500 THEN "Average (5-6.9)"
    ELSE IF rating >= 300 THEN "Poor (3-4.9)"
    ELSE "Bad (0-2.9)"

RatingCategoryNames ==
    {"Excellent (9-10)", "Good (7-8.9)", "Average (5-6.9)", "Poor (3-4.9)", "Bad (0-2.9)"}

RatingCategories(rating_data) ==
    [c \in RatingCategoryNames |->
        Cardinality({p \in DOMAIN rating_data : RatingCategory(rating_data[p]) = c})]

\* genre_counts: for every genre some movie names, the number of times it is named
RECURSIVE AllGenres(_)
AllGenres(pm) == IF pm = <<>> THEN <<>> ELSE Head(pm).genres \o AllGenres(Tail(pm))

GenreCounts(pm) ==
    LET named == AllGenres(pm)
    IN  [g \in Range(named) |-> Cardinality({p \in DOMAIN named : named[p] = g})]

\* round(x, 2) of the quotient num / den of hundredths: nearest, ties to even
Round2(num, den) ==
    LET q == num \div den
        r == num % den
    IN  IF 2 * r < den THEN q
        ELSE IF 2 * r > den THEN q + 1
        ELSE IF q % 2 = 0 THEN q ELSE q + 1

\* variant of InsertDesc that puts a record before the records of equal rating
RECURSIVE InsertDesc_Unstable(_, _, _)
InsertDesc_Unstable(sorted, ref, pm) ==
    IF sorted = <<>> THEN <<ref>>
    ELSE IF RatingOf(pm[Head(sorted)]).v > RatingOf(pm[ref]).v
         THEN <<Head(sorted)>> \o InsertDesc_Unstable(Tail(sorted), ref, pm)
         ELSE <<ref>> \o sorted

\* sorted(rated_movies, key=float(rating), reverse=True): stable, descending
RECURSIVE InsertDesc(_, _, _)
InsertDesc(sorted, ref, pm) ==
    IF sorted = <<>> THEN <<ref>>
    ELSE IF RatingOf(pm[Head(sorted)]).v >= RatingOf(pm[ref]).v
         THEN <<Head(sorted)>> \o InsertDesc(Tail(sorted), ref, pm)
         ELSE <<ref>> \o sorted

RECURSIVE SortedDesc(_, _)
SortedDesc(refs, pm) ==
    IF refs = <<>> THEN <<>>
    ELSE InsertDesc(SortedDesc(SubSeq(refs, 1, Len(refs) - 1), pm), refs[Len(refs)], pm)

TopN == 5

FirstN(xs, n) == SubSeq(xs, 1, IF Len(xs) < n THEN Len(xs) ELSE n)

TotalMovies(pm) == Len(pm)

\* variant of FoundMovies that counts the movies that name a genre
FoundMovies_WithGenres(pm) == Cardinality({p \in DOMAIN pm : ~NoGenres(pm[p].genres)})

FoundMovies(pm) == Cardinality({p \in DOMAIN pm : pm[p].source # "Not Found"})

\* variant of UnknownGenres that misses the list ['Unknown']
UnknownGenres_EmptyOnly(pm) == Cardinality({p \in DOMAIN pm : pm[p].genres = <<>>})

UnknownGenres(pm) == Cardinality({p \in DOMAIN pm : NoGenres(pm[p].genres)})

\* (found_movies / total_movies) * 100 as the exact quotient num / den
SuccessRate(found, total) ==
    IF total > 0 THEN [num |-> found * 100, den |-> total] ELSE [num |-> 0, den |-> 1]

\* variant of NoRecords without the early return
NoRecords_Never(pm) == FALSE

\* if not self.processed_movies: return {}
NoRecords(pm) == pm = <<>>

\* get_statistics on self.processed_movies = pm: {} for an empty list, ValueError
\* when the sort key float() rejects a rating, the aggregate otherwise
StatisticsOf(pm) ==
    IF NoRecords(pm) THEN [kind |-> "empty"]
    ELSE LET rated == RatedRefs(pm, 1)
             rating_data == RatingData(pm, rated)
             avg_num == Sum(rating_data)
         IN  IF \E p \in DOMAIN rated : ~RatingOf(pm[rated[p]]).ok
             THEN [kind |-> "ValueError"]
             ELSE [kind |-> "stats",
                   total_movies |-> TotalMovies(pm),
                   found_movies |-> FoundMovies(pm),
                   not_found_movies |-> TotalMovies(pm) - FoundMovies(pm),
                   unknown_genres |-> UnknownGenres(pm),
                   genre_counts |-> GenreCounts(pm),
                   success_rate |-> SuccessRate(FoundMovies(pm), TotalMovies(pm)),
                   average_rating |->
                       IF rating_data # <<>> /\ avg_num # 0
                       THEN Round2(avg_num, Len(rating_data)) ELSE 0,
                   rating_data |-> rating_data,
                   rating_categories |-> RatingCategories(rating_data),
                   top_rated_movies |-> FirstN(SortedDesc(rated, pm), TopN),
                   total_ratings |-> Len(rating_data)]

get_statistics == StatisticsOf(processed_movies)

-----------------------------------------------------------------------------
(* Inputs *)

SeqsUpTo(S, n) == UNION {[1..k -> S] : k \in 0..n}

\* titles handed to the engine
Titles == {<<"Matrix">>, <<" ", "Zzz", " ">>}

\* records handed to add_movie: its callers pass found records only
StoreRecords ==
    {FoundRecord(<<"Matrix">>, BodyMatrix), FoundRecord(<<"Matrix">>, BodyMatrixAlt),
     FoundRecord(<<"Zzz">>, BodySeries)}

\* (name, description) pairs handed to create_watchlist
WatchlistInputs ==
    {<<Str(<<"Favorites">>), Str(<<>>)>>, <<Str(<<"Favorites">>), Str(<<"weekend">>)>>,
     <<Str(<<"To Watch">>), Str(<<>>)>>}

\* ids handed to add_to_watchlist and delete_watchlist: rows that exist, rows that
\* were replaced or deleted, rows that never existed
WatchlistIds == 1..2
MovieIds == 1..2

\* Response 'True' and nothing else; an empty Genre string; a plain hyphen in Year
BodyBare == [EmptyBody EXCEPT !.Response = Str(<<"True">>)]

BodyEmptyGenre ==
    [EmptyBody EXCEPT
        !.Response = Str(<<"True">>),
        !.Title = Str(<<"Silent">>),
        !.Genre = Str(<<>>),
        !.Year = Str(<<"2010">>),
        !.imdbRating = Str(<<"0", ".", "0">>),
        !.imdbID = Str(<<>>)]

BodyHyphen ==
    [EmptyBody EXCEPT
        !.Response = Str(<<"True">>),
        !.Title = Str(<<"Hyphen">>),
        !.Genre = Str(<<"Drama">>),
        !.Year = Str(<<"2010", "-", "2012">>)]

LookupTitles == Titles \cup {<<"The", " ", "Matrix">>, <<"Zzz">>}

LookupAnswers ==
    TransportFailures \cup NoMatchAnswers \cup FoundAnswers
        \cup {Ok(BodyBare), Ok(BodyEmptyGenre), Ok(BodyHyphen)}

-----------------------------------------------------------------------------
(* main.py: the session's users and the login state *)

\* hashlib.sha256(password.encode()).hexdigest(): the digest of a password is
\* written as the password under the tag sha256; no two passwords share one
hash_password(password) == [sha256 |-> password]

DemoUser == <<"demo">>

DemoPassword == <<"m", "o", "v", "i", "e", "1", "2", "3">>

\* init_user_storage: the users dict of a new session
InitialUsers ==
    [u \in {DemoUser} |->
        [password |-> hash_password(DemoPassword),
         email |-> <<"demo", "@", "moviedb", ".", "com">>,
         name |-> <<"Demo User">>]]

\* st.session_state after the first run of main(): users initialized, nobody
\* logged in, the login tab of the authentication page on screen
FreshSession ==
    [users |-> InitialUsers,
     authenticated |-> FALSE,
     current_user |-> Absent,
     auth_tab |-> "login",
     screen |-> "auth"]

-----------------------------------------------------------------------------
(* Initial state: a fresh database file, a freshly constructed classifier *)

NoOp == [op |-> "none"]

Init ==
    /\ movies = {}
    /\ seq_movies = 0
    /\ watchlists = {}
    /\ seq_watchlists = 0
    /\ watchlist_items = {}
    /\ seq_items = 0
    /\ clock = 0
    /\ processed_movies = <<>>
    /\ classified_movies = NoMap
    /\ pc = "idle"
    /\ movie_titles = <<>>
    /\ progress_callback = FALSE
    /\ i = 0
    /\ responses = <<>>
    /\ batch_movies = <<>>
    /\ session = FreshSession
    /\ events = <<>>
    /\ last = NoOp

-----------------------------------------------------------------------------
(* Catalog store operations *)

\* rows inserted so far, over the three tables
Inserts == seq_movies + seq_watchlists + seq_items

AddMovie(movie_data, fault) ==
    /\ pc = "idle"
    /\ Inserts < MaxInserts
    /\ LET r == add_movie(movie_data, fault)
       IN  /\ movies' = r.movies
           /\ seq_movies' = r.seq_movies
           /\ last' = [op |-> "add_movie", movie_data |-> movie_data, fault |-> fault,
                       ret |-> r.ret, replaced |-> movies \ r.movies]
    /\ UNCHANGED <<watchlists, seq_watchlists, watchlist_items, seq_items, clock, engineVars>>

CreateWatchlist(name, description) ==
    /\ pc = "idle"
    /\ IF create_watchlist_ok(name)
       THEN /\ Inserts < MaxInserts
            /\ watchlists' = watchlists
                   \cup {WatchlistRow(seq_watchlists + 1, name, description, clock)}
            /\ seq_watchlists' = seq_watchlists + 1
            /\ last' = [op |-> "create_watchlist", name |-> name,
                        description |-> description, ret |-> TRUE]
       ELSE /\ UNCHANGED <<watchlists, seq_watchlists>>
            /\ last' = [op |-> "create_watchlist", name |-> name,
                        description |-> description, ret |-> FALSE]
    /\ UNCHANGED <<movies, seq_movies, watchlist_items, seq_items, clock, engineVars>>

AddToWatchlist(watchlist_id, movie_id) ==
    /\ pc = "idle"
    /\ IF add_to_watchlist_ok(watchlist_id, movie_id)
       THEN /\ Inserts < MaxInserts
            /\ watchlist_items' = watchlist_items
                   \cup {ItemRow(seq_items + 1, watchlist_id, movie_id, clock)}
            /\ seq_items' = seq_items + 1
            /\ last' = [op |-> "add_to_watchlist", watchlist_id |-> watchlist_id,
                        movie_id |-> movie_id, ret |-> TRUE]
       ELSE /\ UNCHANGED <<watchlist_items, seq_items>>
            /\ last' = [op |-> "add_to_watchlist", watchlist_id |-> watchlist_id,
                        movie_id |-> movie_id, ret |-> FALSE]
    /\ UNCHANGED <<movies, seq_movies, watchlists, seq_watchlists, clock, engineVars>>

DeleteWatchlist(watchlist_id, fault) ==
    /\ pc = "idle"
    /\ IF fault = "none"
       THEN /\ watchlist_items' = delete_watchlist_items(watchlist_id)
            /\ watchlists' = delete_watchlist_row(watchlist_id)
            /\ last' = [op |-> "delete_watchlist", watchlist_id |-> watchlist_id,
                        fault |-> fault, ret |-> TRUE,
                        removed |-> watchlist_items \ delete_watchlist_items(watchlist_id)]
       ELSE /\ UNCHANGED <<watchlist_items, watchlists>>
            /\ last' = [op |-> "delete_watchlist", watchlist_id |-> watchlist_id,
                        fault |-> fault, ret |-> FALSE, removed |-> {}]
    /\ UNCHANGED <<movies, seq_movies, seq_watchlists, seq_items, clock, engineVars>>

NextDB ==
    \/ \E movie_data \in StoreRecords, fault \in Faults : AddMovie(movie_data, fault)
    \/ \E w \in WatchlistInputs : CreateWatchlist(w[1], w[2])
    \/ \E watchlist_id \in WatchlistIds, movie_id \in MovieIds :
          AddToWatchlist(watchlist_id, movie_id)
    \/ \E watchlist_id \in WatchlistIds, fault \in Faults :
          DeleteWatchlist(watchlist_id, fault)

SpecDB == Init /\ [][NextDB]_vars

-----------------------------------------------------------------------------
(* Classification engine operations *)

Event(e, n, total) == [e |-> e, n |-> n, total |-> total]

\* the effect of "if found: self.database.add_movie(movie_data)"
StoreIfFound(movie_data, fault) ==
    IF ShouldStore(movie_data)
    THEN [called |-> TRUE] @@ add_movie(movie_data, fault)
    ELSE [called |-> FALSE, movies |-> movies, seq_movies |-> seq_movies, ret |-> RetNone]

\* variant of ResetProcessed that keeps the previous batch's records
ResetProcessed_Keep(pm) == pm

\* variant of AppendProcessed that records found movies only
AppendProcessed_FoundOnly(pm, movie_data) ==
    IF movie_data.source # "Not Found" THEN Append(pm, movie_data) ELSE pm

\* self.processed_movies = [] on entry to classify_movies
ResetProcessed(pm) == <<>>

\* self.processed_movies.append(movie_data)
AppendProcessed(pm, movie_data) == Append(pm, movie_data)

\* classify_movies up to the loop
ClassifyStart(titles, callback) ==
    /\ pc = "idle"
    /\ seq_movies + Len(titles) <= MaxStored
    /\ classified_movies' = EmptyGenreMap
    /\ processed_movies' = ResetProcessed(processed_movies)
    /\ movie_titles' = titles
    /\ progress_callback' = callback
    /\ i' = 0
    /\ responses' = <<>>
    /\ events' = <<>>
    /\ pc' = "running"
    /\ last' = [op |-> "classify_movies.enter"]
    /\ UNCHANGED <<dbVars, clock, uiVars>>

\* variant of IterationEvents that reports progress once the lookup has returned
IterationEvents_CallbackAfterLookup(callback, n, total) ==
    <<Event("request", n, total)>>
        \o (IF callback THEN <<Event("callback", n, total)>> ELSE <<>>)
        \o <<Event("sleep", n, total)>>

\* variant of IterationEvents that sends the request a second time
IterationEvents_Retry(callback, n, total) ==
    (IF callback THEN <<Event("callback", n, total)>> ELSE <<>>)
        \o <<Event("request", n, total), Event("request", n, total),
             Event("sleep", n, total)>>

\* what one iteration does that an observer can see, in program order:
\* progress_callback(i + 1, total_movies) if a callback was given, the lookup
\* (request sent and answered), time.sleep(0.2)
IterationEvents(callback, n, total) ==
    (IF callback THEN <<Event("callback", n, total)>> ELSE <<>>)
        \o <<Event("request", n, total), Event("sleep", n, total)>>

\* one iteration of the loop, the provider answering `answer`
ClassifyIteration(answer, fault) ==
    /\ pc = "running"
    /\ i < Len(movie_titles)
    /\ LET title == movie_titles[i + 1]
           total_movies == Len(movie_titles)
           movie_data == get_movie_data(Strip(title), answer)
           stored == StoreIfFound(movie_data, fault)
       IN  /\ events' = events \o IterationEvents(progress_callback, i + 1, total_movies)
           /\ responses' = Append(responses, answer)
           /\ processed_movies' = AppendProcessed(processed_movies, movie_data)
           /\ movies' = stored.movies
           /\ seq_movies' = stored.seq_movies
           /\ classified_movies' =
                  Classify(classified_movies, movie_data, Len(processed_movies) + 1)
           /\ last' = [op |-> "classify_movies.iteration", movie_data |-> movie_data,
                       called |-> stored.called, fault |-> fault, ret |-> stored.ret]
    /\ i' = i + 1
    /\ UNCHANGED <<watchlists, seq_watchlists, watchlist_items, seq_items, clock,
                   pc, movie_titles, progress_callback, uiVars>>

\* batches are explored with writes that succeed; SearchSingleMovie explores
\* the failing write as well
ClassifyStep == \E answer \in ProviderAnswers : ClassifyIteration(answer, "none")

\* the loop is exhausted: return classified_movies
ClassifyReturn ==
    /\ pc = "running"
    /\ i = Len(movie_titles)
    /\ pc' = "idle"
    /\ last' = [op |-> "classify_movies", ret |-> classified_movies]
    /\ UNCHANGED <<dbVars, clock, processed_movies, classified_movies, movie_titles,
                   progress_callback, i, responses, uiVars, events>>

\* variant of SingleSearchProcessed that records the search in the batch list
SingleSearchProcessed_Append(pm, movie_data) == Append(pm, movie_data)

\* self.processed_movies over a call of search_single_movie: not assigned
SingleSearchProcessed(pm, movie_data) == pm

SearchSingleMovie(movie_title, answer, fault) ==
    /\ pc = "idle"
    /\ seq_movies < MaxStored
    /\ LET movie_data == get_movie_data(movie_title, answer)
           stored == StoreIfFound(movie_data, fault)
       IN  /\ movies' = stored.movies
           /\ seq_movies' = stored.seq_movies
           /\ processed_movies' = SingleSearchProcessed(processed_movies, movie_data)
           /\ last' = [op |-> "search_single_movie", movie_title |-> movie_title,
                       answer |-> answer, movie_data |-> movie_data,
                       called |-> stored.called, fault |-> fault, ret |-> stored.ret]
    /\ UNCHANGED <<watchlists, seq_watchlists, watchlist_items, seq_items, clock,
                   classified_movies, pc, movie_titles, progress_callback, i,
                   responses, uiVars, events>>

GetStatistics ==
    /\ pc = "idle"
    /\ last' = [op |-> "get_statistics", ret |-> get_statistics]
    /\ UNCHANGED <<dbVars, clock, engineVars>>

Next ==
    \/ \E titles \in SeqsUpTo(Titles, MaxBatch), callback \in BOOLEAN :
          ClassifyStart(titles, callback)
    \/ ClassifyStep
    \/ ClassifyReturn
    \/ \E movie_title \in Titles, answer \in SingleAnswers, fault \in Faults :
          SearchSingleMovie(movie_title, answer, fault)
    \/ GetStatistics

Spec == Init /\ [][Next]_vars

\* classify_movies is a loop of a single thread: once entered it keeps running
SpecLive == Spec /\ WF_vars(ClassifyStep) /\ WF_vars(ClassifyReturn)

-----------------------------------------------------------------------------
(* get_movie_data on its own: one title, one provider answer *)

InitLookup ==
    /\ movies = {}
    /\ seq_movies = 0
    /\ watchlists = {}
    /\ seq_watchlists = 0
    /\ watchlist_items = {}
    /\ seq_items = 0
    /\ clock = 0
    /\ processed_movies = <<>>
    /\ classified_movies = NoMap
    /\ pc = "idle"
    /\ \E t \in LookupTitles : movie_titles = <<t>>
    /\ progress_callback = FALSE
    /\ i = 0
    /\ \E a \in LookupAnswers : responses = <<a>>
    /\ batch_movies = <<>>
    /\ session = FreshSession
    /\ events = <<>>
    /\ last = NoOp

GetMovieData ==
    /\ last = NoOp
    /\ last' = [op |-> "get_movie_data", movie_title |-> movie_titles[1],
                answer |-> responses[1],
                ret |-> get_movie_data(movie_titles[1], responses[1])]
    /\ UNCHANGED <<dbVars, clock, engineVars>>

NextLookup == GetMovieData

SpecLookup == InitLookup /\ [][NextLookup]_vars

-----------------------------------------------------------------------------
(* get_statistics on its own: self.processed_movies is whatever list of     *)
(* get_movie_data results the last batch left                               *)

\* a found answer that carries a title and an imdbRating and nothing else
RatingBody(title, rating) ==
    [EmptyBody EXCEPT
        !.Response = Str(<<"True">>), !.Title = Str(title), !.imdbRating = rating]

\* provider ratings: the histogram's boundaries and their neighbours, zero, ten,
\* 'N/A', the empty string, no rating at all
StatsRatings ==
    {Str(<<"9", ".", "0">>), Str(<<"8", ".", "9">>), Str(<<"7", ".", "0">>),
     Str(<<"6", ".", "9", "9">>), Str(<<"5">>), Str(<<"4", ".", "9", "9">>),
     Str(<<"3", ".", "0">>), Str(<<"2", ".", "9", "9">>), Str(<<"0", ".", "0">>),
     Str(<<"1", "0">>), Str(<<"N/A">>), Str(<<>>), Absent}

\* the records of short batches: every rating once, and a lookup that failed
StatsRecords ==
    {get_movie_data(<<"Rated">>, Ok(RatingBody(<<"Rated">>, r))) : r \in StatsRatings}
        \cup {get_movie_data(<<"Zzz">>, Ok(BodyNotFound))}

\* the records of long batches: two titles of equal rating, a higher one, an unrated one
TopRecords ==
    {get_movie_data(<<"A">>, Ok(RatingBody(<<"A">>, Str(<<"8", ".", "7">>)))),
     get_movie_data(<<"B">>, Ok(RatingBody(<<"B">>, Str(<<"8", ".", "7", "0">>)))),
     get_movie_data(<<"C">>, Ok(RatingBody(<<"C">>, Str(<<"9", ".", "0">>)))),
     get_movie_data(<<"D">>, Ok(RatingBody(<<"D">>, Str(<<"N/A">>))))}

StatsBatches == SeqsUpTo(StatsRecords, MaxStatBatch) \cup SeqsUpTo(TopRecords, MaxTopBatch)

InitStats ==
    /\ movies = {}
    /\ seq_movies = 0
    /\ watchlists = {}
    /\ seq_watchlists = 0
    /\ watchlist_items = {}
    /\ seq_items = 0
    /\ clock = 0
    /\ processed_movies \in StatsBatches
    /\ classified_movies = NoMap
    /\ pc = "idle"
    /\ movie_titles = <<>>
    /\ progress_callback = FALSE
    /\ i = 0
    /\ responses = <<>>
    /\ batch_movies = <<>>
    /\ session = FreshSession
    /\ events = <<>>
    /\ last = NoOp

NextStats == GetStatistics

SpecStats == InitStats /\ [][NextStats]_vars

-----------------------------------------------------------------------------
(* The engine against a provider that sends a rating float() rejects, and a *)
(* store whose writes can fail within a batch                               *)

\* a found answer whose imdbRating is present, not 'N/A' and not a number
BodyMalformed ==
    [EmptyBody EXCEPT
        !.Response = Str(<<"True">>),
        !.Title = Str(<<"Bad">>),
        !.Genre = Str(<<"Drama">>),
        !.Year = Str(<<"2005">>),
        !.imdbRating = Str(<<"7", ".", "5", "/", "1", "0">>)]

FaultyAnswers == {Ok(BodyMalformed), Ok(BodyMatrix), Ok(BodyNotFound)}

ClassifyStepFaulty ==
    \E answer \in FaultyAnswers, fault \in Faults : ClassifyIteration(answer, fault)

NextFaulty ==
    \/ \E titles \in SeqsUpTo(Titles, MaxBatch), callback \in BOOLEAN :
          ClassifyStart(titles, callback)
    \/ ClassifyStepFaulty
    \/ ClassifyReturn
    \/ GetStatistics

SpecFaulty == Init /\ [][NextFaulty]_vars

-----------------------------------------------------------------------------
(* search_movies: SQLite's LIKE, on strings written one character a token   *)

Uppers ==
    <<"A", "B", "C", "D", "E", "F", "G", "H", "I", "J", "K", "L", "M",
      "N", "O", "P", "Q", "R", "S", "T", "U", "V", "W", "X", "Y", "Z">>

Lowers ==
    <<"a", "b", "c", "d", "e", "f", "g", "h", "i", "j", "k", "l", "m",
      "n", "o", "p", "q", "r", "s", "t", "u", "v", "w", "x", "y", "z">>

\* LIKE folds the case of ASCII letters and of nothing else
Lower(c) ==
    IF \E k \in DOMAIN Uppers : Uppers[k] = c
    THEN Lowers[CHOOSE k \in DOMAIN Uppers : Uppers[k] = c]
    ELSE c

\* s LIKE pattern: % stands for any run of characters, _ for any one character,
\* there is no escape character
RECURSIVE Like(_, _)
Like(pattern, s) ==
    IF pattern = <<>> THEN s = <<>>
    ELSE IF Head(pattern) = "%"
         THEN Like(Tail(pattern), s) \/ (s # <<>> /\ Like(pattern, Tail(s)))
    ELSE /\ s # <<>>
         /\ Head(pattern) = "_" \/ Lower(Head(pattern)) = Lower(Head(s))
         /\ Like(Tail(pattern), Tail(s))

\* column LIKE '%query%'; a NULL column matches nothing
ColumnLike(column, query) ==
    column.k = "str" /\ Like(<<"%">> \o query \o <<"%">>, column.s)

\* the rows of SELECT * FROM movies WHERE title LIKE ? OR genres LIKE ? OR
\* director LIKE ? OR actors LIKE ?
search_movies_rows(query) ==
    {r \in movies : \/ ColumnLike(r.title, query)
                    \/ ColumnLike(r.genres, query)
                    \/ ColumnLike(r.director, query)
                    \/ ColumnLike(r.actors, query)}

\* ORDER BY col DESC: every arrangement of the rows in which col does not
\* increase; SQL leaves the order of rows of equal col open
OrderedDesc(rows, col) ==
    {s \in [1..Cardinality(rows) -> rows] :
        /\ \A a, b \in DOMAIN s : a # b => s[a] # s[b]
        /\ \A a, b \in DOMAIN s : a < b => s[a][col] >= s[b][col]}

\* a found answer with a title, a year, genres, a director, actors and a rating
SearchBody(title, year, genre, director, actors, rating) ==
    [EmptyBody EXCEPT
        !.Response = Str(<<"True">>), !.Title = Str(title), !.Year = Str(year),
        !.Genre = genre, !.Director = director, !.Actors = actors,
        !.imdbRating = rating]

\* records handed to add_movie: 'Up' (War; Bo; Al; 8.3), 'Pi' (War; Bo; no
\* actors; 8.3), 'It' (nothing but the title); the 'Unknown' get_movie_data
\* fills in for a missing field is one token
SearchRecords ==
    {FoundRecord(<<"U", "p">>,
         SearchBody(<<"U", "p">>, <<"2009">>, Str(<<"W", "a", "r">>), Str(<<"B", "o">>),
                    Str(<<"A", "l">>), Str(<<"8", ".", "3">>))),
     FoundRecord(<<"P", "i">>,
         SearchBody(<<"P", "i">>, <<"1998">>, Str(<<"W", "a", "r">>), Str(<<"B", "o">>),
                    Absent, Str(<<"8", ".", "3">>))),
     FoundRecord(<<"I", "t">>,
         SearchBody(<<"I", "t">>, <<"2017">>, Absent, Absent, Absent, Str(<<"N/A">>)))}

\* what the user types into the search box
Queries == {<<"u", "p">>, <<"A", "R">>, <<"b", "O">>, <<"a", "l">>, <<"z">>, <<"_">>}

SearchMovies(query) ==
    /\ pc = "idle"
    /\ \E ret \in OrderedDesc(search_movies_rows(query), "rating") :
           last' = [op |-> "search_movies", query |-> query, ret |-> ret]
    /\ UNCHANGED <<dbVars, clock, engineVars>>

NextSearch ==
    \/ \E movie_data \in SearchRecords : AddMovie(movie_data, "none")
    \/ \E query \in Queries : SearchMovies(query)

SpecSearch == Init /\ [][NextSearch]_vars

-----------------------------------------------------------------------------
(* get_all_movies: rows in the order of date_added, which is CURRENT_TIMESTAMP *)
(* at the time of the write, in whole seconds                                 *)

\* a second goes by
Tick ==
    /\ pc = "idle"
    /\ clock < MaxClock
    /\ clock' = clock + 1
    /\ last' = [op |-> "tick"]
    /\ UNCHANGED <<dbVars, engineVars>>

GetAllMovies ==
    /\ pc = "idle"
    /\ \E ret \in OrderedDesc(get_all_movies, "date_added") :
           last' = [op |-> "get_all_movies", ret |-> ret]
    /\ UNCHANGED <<dbVars, clock, engineVars>>

NextClock ==
    \/ Tick
    \/ \E movie_data \in StoreRecords : AddMovie(movie_data, "none")
    \/ GetAllMovies

SpecClock == Init /\ [][NextClock]_vars

-----------------------------------------------------------------------------
(* utils/helpers.py validate_movie_titles and the batch page that calls it  *)

\* variant of validate_movie_titles that keeps a valid title as it was typed
RECURSIVE validate_movie_titles_KeepsRaw(_)
validate_movie_titles_KeepsRaw(titles) ==
    IF titles = <<>> THEN [valid |-> <<>>, invalid |-> <<>>]
    ELSE LET title == titles[Len(titles)]
             cleaned_title == Strip(title)
             rest == validate_movie_titles_KeepsRaw(SubSeq(titles, 1, Len(titles) - 1))
         IN  IF cleaned_title # <<>> /\ Len(cleaned_title) >= 1
             THEN [rest EXCEPT !.valid = Append(@, title)]
             ELSE [rest EXCEPT !.invalid = Append(@, title)]

\* validate_movie_titles: (valid_titles, invalid_titles)
RECURSIVE validate_movie_titles(_)
validate_movie_titles(titles) ==
    IF titles = <<>> THEN [valid |-> <<>>, invalid |-> <<>>]
    ELSE LET title == titles[Len(titles)]
             cleaned_title == Strip(title)
             rest == validate_movie_titles(SubSeq(titles, 1, Len(titles) - 1))
         IN  IF cleaned_title # <<>> /\ Len(cleaned_title) >= 1
             THEN [rest EXCEPT !.valid = Append(@, cleaned_title)]
             ELSE [rest EXCEPT !.invalid = Append(@, title)]

\* what the user may have entered: nothing, blanks, a title, a padded title
RawTitles == {<<>>, <<" ", "\t">>, <<"Matrix">>, <<" ", "Zzz", " ">>}

InitValidate ==
    /\ movies = {}
    /\ seq_movies = 0
    /\ watchlists = {}
    /\ seq_watchlists = 0
    /\ watchlist_items = {}
    /\ seq_items = 0
    /\ clock = 0
    /\ processed_movies = <<>>
    /\ classified_movies = NoMap
    /\ pc = "idle"
    /\ movie_titles = <<>>
    /\ progress_callback = FALSE
    /\ i = 0
    /\ responses = <<>>
    /\ batch_movies \in SeqsUpTo(RawTitles, MaxRaw)
    /\ session = FreshSession
    /\ events = <<>>
    /\ last = NoOp

\* render_batch_classification when "Process Movies" is pressed: validate, warn
\* about the invalid titles, call classify_movies(valid_titles, update_progress)
\* if there is a valid title, report an error otherwise
ProcessMovies ==
    /\ pc = "idle"
    /\ batch_movies # <<>>
    /\ LET checked == validate_movie_titles(batch_movies)
       IN  /\ last' = [op |-> "render_batch_classification",
                       valid_titles |-> checked.valid,
                       invalid_titles |-> checked.invalid,
                       warned |-> checked.invalid # <<>>,
                       classify |-> checked.valid # <<>>]
           /\ IF checked.valid # <<>>
              THEN /\ seq_movies + Len(checked.valid) <= MaxStored
                   /\ classified_movies' = EmptyGenreMap
                   /\ processed_movies' = ResetProcessed(processed_movies)
                   /\ movie_titles' = checked.valid
                   /\ progress_callback' = TRUE
                   /\ i' = 0
                   /\ responses' = <<>>
                   /\ events' = <<>>
                   /\ pc' = "running"
              ELSE UNCHANGED <<classified_movies, processed_movies, movie_titles,
                               progress_callback, i, responses, events, pc>>
    /\ UNCHANGED <<dbVars, clock, uiVars>>

ClassifyStepPlain == \E answer \in SingleAnswers : ClassifyIteration(answer, "none")

NextValidate ==
    \/ ProcessMovies
    \/ ClassifyStepPlain
    \/ ClassifyReturn

SpecValidate == InitValidate /\ [][NextValidate]_vars

-----------------------------------------------------------------------------
(* main.py: the authentication page.  An e-mail address is written as the  *)
(* tokens local part, "@", domain, ".", top-level domain; a password one    *)
(* character a token.                                                       *)

\* validate_email: the pattern local@domain.tld
validate_email(email) ==
    /\ Len(email) = 5
    /\ email[2] = "@"
    /\ email[4] = "."
    /\ \A p \in {1, 3, 5} : email[p] \notin {"", "@", "."}

\* validate_password: 8 characters or more, an uppercase letter, a lowercase
\* letter, a digit
validate_password(password) ==
    /\ Len(password) >= 8
    /\ \E p \in DOMAIN password : password[p] \in Range(Uppers)
    /\ \E p \in DOMAIN password : password[p] \in Range(Lowers)
    /\ \E p \in DOMAIN password : password[p] \in Digits

\* variant of login_ok that does not compare the password's hash
login_ok_NoPasswordCheck(users, username, password) ==
    /\ username # <<>> /\ password # <<>>
    /\ username \in DOMAIN users

\* the conditions under which the login form logs the user in
login_ok(users, username, password) ==
    /\ username # <<>> /\ password # <<>>
    /\ username \in DOMAIN users
    /\ users[username].password = hash_password(password)

\* the conditions under which the signup form creates the account
signup_ok(users, fullname, email, username, password, confirm_password) ==
    /\ fullname # <<>> /\ email # <<>> /\ username # <<>>
    /\ password # <<>> /\ confirm_password # <<>>
    /\ username \notin DOMAIN users
    /\ validate_email(email)
    /\ password = confirm_password
    /\ validate_password(password)

\* handle_authentication
handle_authentication(s) == s.authenticated

\* main(): the authentication page unless handle_authentication, else the
\* main application
Rendered(s) ==
    [s EXCEPT !.screen = IF handle_authentication(s) THEN "main" ELSE "auth"]

Usernames == {<<>>, DemoUser, <<"ann">>}

Passwords ==
    {<<>>, DemoPassword, <<"P", "a", "s", "s", "w", "0", "r", "d">>,
     <<"S", "e", "c", "r", "e", "t", "9", "9">>, <<"s", "h", "o", "r", "t">>}

Emails == {<<>>, <<"ann", "@", "x", ".", "org">>, <<"ann">>}

Fullnames == {<<>>, <<"Ann">>}

AuthTabs == {"login", "signup", "forgot"}

\* the tab buttons of the authentication page; "Forgot Password?" is a
\* button of the login form
SwitchTab(tab) ==
    /\ session.screen = "auth"
    /\ tab = "forgot" => session.auth_tab = "login"
    /\ session' = Rendered([session EXCEPT !.auth_tab = tab])
    /\ last' = [op |-> "switch_tab", tab |-> tab]
    /\ UNCHANGED <<dbVars, clock, processed_movies, classified_movies, pc, movie_titles,
                   progress_callback, i, responses, batch_movies, events>>

\* the login form is submitted
Login(username, password) ==
    /\ session.screen = "auth"
    /\ session.auth_tab = "login"
    /\ session' = Rendered(IF login_ok(session.users, username, password)
                           THEN [session EXCEPT !.authenticated = TRUE,
                                                !.current_user = Str(username)]
                           ELSE session)
    /\ last' = [op |-> "login", username |-> username, password |-> password]
    /\ UNCHANGED <<dbVars, clock, processed_movies, classified_movies, pc, movie_titles,
                   progress_callback, i, responses, batch_movies, events>>

\* the button "Try Demo Version"
DemoLogin ==
    /\ session.screen = "auth"
    /\ session.auth_tab = "login"
    /\ session' = Rendered([session EXCEPT !.authenticated = TRUE,
                                           !.current_user = Str(DemoUser)])
    /\ last' = [op |-> "demo_login"]
    /\ UNCHANGED <<dbVars, clock, processed_movies, classified_movies, pc, movie_titles,
                   progress_callback, i, responses, batch_movies, events>>

\* the signup form is submitted
Signup(fullname, email, username, password, confirm_password) ==
    /\ session.screen = "auth"
    /\ session.auth_tab = "signup"
    /\ session' = Rendered(
           IF signup_ok(session.users, fullname, email, username, password, confirm_password)
           THEN [session EXCEPT
                    !.users = [u \in DOMAIN session.users \cup {username} |->
                                  IF u = username
                                  THEN [password |-> hash_password(password),
                                        email |-> email, name |-> fullname]
                                  ELSE session.users[u]],
                    !.auth_tab = "login"]
           ELSE session)
    /\ last' = [op |-> "signup", username |-> username, password |-> password,
                created |-> signup_ok(session.users, fullname, email, username,
                                      password, confirm_password)]
    /\ UNCHANGED <<dbVars, clock, processed_movies, classified_movies, pc, movie_titles,
                   progress_callback, i, responses, batch_movies, events>>

\* the forgot-password form is submitted: a message, no change of state
ForgotPassword(email) ==
    /\ session.screen = "auth"
    /\ session.auth_tab = "forgot"
    /\ session' = Rendered(session)
    /\ last' = [op |-> "forgot_password", email |-> email,
                user_found |-> \E u \in DOMAIN session.users : session.users[u].email = email]
    /\ UNCHANGED <<dbVars, clock, processed_movies, classified_movies, pc, movie_titles,
                   progress_callback, i, responses, batch_movies, events>>

\* a rerun of main() in a session that is logged in: the main application
MainApplication ==
    /\ session.screen = "main"
    /\ session' = Rendered(session)
    /\ last' = [op |-> "main_application"]
    /\ UNCHANGED <<dbVars, clock, processed_movies, classified_movies, pc, movie_titles,
                   progress_callback, i, responses, batch_movies, events>>

NextAuth ==
    \/ \E tab \in AuthTabs : SwitchTab(tab)
    \/ \E username \in Usernames, password \in Passwords : Login(username, password)
    \/ DemoLogin
    \/ \E fullname \in Fullnames, email \in Emails, username \in Usernames,
          password \in Passwords, confirm_password \in Passwords :
          Signup(fullname, email, username, password, confirm_password)
    \/ \E email \in Emails : ForgotPassword(email)
    \/ MainApplication

SpecAuth == Init /\ [][NextAuth]_vars

-----------------------------------------------------------------------------
(* Properties of the metadata client *)

\* the provider lookup failed in transport, or the provider reported no match
LookupFailed(answer) ==
    answer.status # "ok" \/ answer.body.Response # Str(<<"True">>)

\* every field of the record holds the fixed placeholder value
IsPlaceholder(r, movie_title) ==
    /\ r.source = "Not Found"
    /\ r.omdb = NoData
    /\ r.title = Str(movie_title)
    /\ r.genres = << <<"Unknown">> >>
    /\ r.year = Str(<<"Unknown">>)
    /\ r.overview = Str(<<"No information available">>)
    /\ r.rating = None
    /\ r.votes = Str(<<"0">>)
    /\ r.director = Str(<<"Unknown">>)
    /\ r.actors = Str(<<"Unknown">>)
    /\ r.runtime = Str(<<"Unknown">>)
    /\ r.box_office = Str(<<"Unknown">>)
    /\ r.poster = Str(<<>>)
    /\ r.metascore = Str(<<"N/A">>)
    /\ r.imdb_id = Str(<<>>)
    /\ r.omdb_link = Str(<<>>)

\* C1: when the lookup fails in transport or the provider reports no match,
\* get_movie_data returns the record with source 'Not Found' and every field at
\* its placeholder value, and the record for a transport failure is the one a
\* provider 'not found' answer gives for the same title.
C1_FailedLookupIsPlaceholder ==
    (last.op = "get_movie_data" /\ LookupFailed(last.answer)) =>
        /\ IsPlaceholder(last.ret, last.movie_title)
        /\ \A a \in TransportFailures, b \in NoMatchAnswers :
              get_movie_data(last.movie_title, a) = get_movie_data(last.movie_title, b)

C1_Witness ==
    /\ last.op = "get_movie_data"
    /\ last.answer = Failed("timeout")
    /\ last.ret.source = "Not Found"
    /\ last.ret = get_movie_data(last.movie_title, Ok(BodyNotFound))

-----------------------------------------------------------------------------
(* Properties of the catalog store *)

RowsOf(rows, title, year) == {r \in rows : r.title = title /\ r.year = year}

\* the row holds the values add_movie binds for movie_data, column by column
HoldsValuesOf(r, movie_data) ==
    /\ r.title = movie_data.title
    /\ r.year = movie_data.year
    /\ r.genres = Str(Join(movie_data.genres, <<",", " ">>))
    /\ r.rating = (IF movie_data.rating \in {None, Str(<<>>), Str(<<"N/A">>)}
                   THEN 0 ELSE ParseFloat(movie_data.rating.s).v)
    /\ r.director = movie_data.director
    /\ r.actors = movie_data.actors
    /\ r.runtime = movie_data.runtime
    /\ r.overview = movie_data.overview
    /\ r.poster_url = movie_data.poster
    /\ r.imdb_id = movie_data.imdb_id

\* C2: upserting a (title, year) pair that is already stored leaves exactly one
\* row for the pair, and after a successful add_movie that row holds the values
\* of the record just written in every metadata column (last write wins).
C2_UpsertLastWriteWins ==
    /\ \A r1, r2 \in movies : (r1.title = r2.title /\ r1.year = r2.year) => r1 = r2
    /\ (last.op = "add_movie" /\ ~last.ret.none) =>
          LET rows == RowsOf(movies, last.movie_data.title, last.movie_data.year)
          IN  /\ Cardinality(rows) = 1
              /\ \A r \in rows : r.id = last.ret.id /\ HoldsValuesOf(r, last.movie_data)

\* the second write hit a stored row of the same (title, year) with other metadata
C2_Witness ==
    /\ last.op = "add_movie"
    /\ ~last.ret.none
    /\ \E old \in last.replaced :
          /\ old.title = last.movie_data.title
          /\ old.year = last.movie_data.year
          /\ old.director # last.movie_data.director
          /\ old.rating # 0
    /\ \E r \in movies : r.id = last.ret.id /\ r.rating = 0

ItemsOf(items, watchlist_id, movie_id) ==
    {it \in items : it.watchlist_id = watchlist_id /\ it.movie_id = movie_id}

\* C3: add_to_watchlist on a pair that is not yet a member returns True and
\* leaves one membership row for the pair; on a pair that is already a member it
\* returns False, the pair still has exactly one row and the store is unchanged.
C3_DuplicateMembershipIsConflict ==
    [][last'.op = "add_to_watchlist" =>
         LET before == ItemsOf(watchlist_items, last'.watchlist_id, last'.movie_id)
             after == ItemsOf(watchlist_items', last'.watchlist_id, last'.movie_id)
         IN  /\ Cardinality(after) = 1
             /\ before = {} => last'.ret = TRUE
             /\ before # {} => (last'.ret = FALSE /\ dbVars' = dbVars)]_vars

C3_Witness ==
    /\ last.op = "add_to_watchlist"
    /\ last.ret = FALSE
    /\ Cardinality(ItemsOf(watchlist_items, last.watchlist_id, last.movie_id)) = 1
    /\ seq_items = 1

\* C4: a delete_watchlist that returns True removes every membership row of
\* that watchlist and the watchlist row, leaves all other watchlists, all other
\* membership rows and all movie rows as they were, and get_watchlists no
\* longer lists the watchlist.
C4_DeleteWatchlistCascades ==
    [][(last'.op = "delete_watchlist" /\ last'.ret = TRUE) =>
         LET id == last'.watchlist_id
         IN  /\ watchlist_items' = {it \in watchlist_items : it.watchlist_id # id}
             /\ watchlists' = {w \in watchlists : w.id # id}
             /\ movies' = movies
             /\ \A w \in get_watchlists' : w.id # id]_vars

\* a watchlist with two members was deleted next to one that stays
C4_Witness ==
    /\ last.op = "delete_watchlist"
    /\ last.ret = TRUE
    /\ Cardinality(last.removed) = 2
    /\ watchlists # {}
    /\ \A w \in get_watchlists : w.id # last.watchlist_id

\* C5: create_watchlist with a name that is already taken returns False, adds
\* no row and leaves the store (the existing watchlist's description and
\* membership included) unchanged; no two watchlist rows ever share a name.
C5_DuplicateNameIsConflict ==
    [][/\ \A w1, w2 \in watchlists' : w1.name = w2.name => w1 = w2
       /\ (last'.op = "create_watchlist" /\ \E w \in watchlists : w.name = last'.name) =>
             (last'.ret = FALSE /\ dbVars' = dbVars)]_vars

\* the name was taken by a watchlist with another description and a member
C5_Witness ==
    /\ last.op = "create_watchlist"
    /\ last.ret = FALSE
    /\ \E w \in watchlists :
          /\ w.name = last.name
          /\ w.description # last.description
          /\ \E it \in watchlist_items : it.watchlist_id = w.id

-----------------------------------------------------------------------------
(* Properties of the classification engine *)

\* the provider answered the request with a match
AnswerFound(answer) == ~LookupFailed(answer)

\* the lookup results of the batch, from its titles and the provider's answers
BatchRecords ==
    [k \in 1..Len(responses) |-> get_movie_data(Strip(movie_titles[k]), responses[k])]

\* C6: classify_movies over a finite list of titles terminates, it has no
\* outcome other than running and returned, and when it returns
\* processed_movies holds one record per input title, in input order, the k-th
\* being the lookup result for the k-th title, whatever the lookups gave.
C6_BatchRunsToCompletion ==
    /\ [](/\ pc \in {"idle", "running"}
          /\ pc = "running" => i <= Len(movie_titles)
          /\ last.op = "classify_movies" =>
                /\ Len(processed_movies) = Len(movie_titles)
                /\ Len(responses) = Len(movie_titles)
                /\ \A k \in 1..Len(movie_titles) : processed_movies[k] = BatchRecords[k])
    /\ (pc = "running") ~> (pc = "idle" /\ last.op = "classify_movies")

\* a batch of a found, then a failed lookup has returned
C6_Witness ==
    /\ last.op = "classify_movies"
    /\ Len(movie_titles) = 2
    /\ AnswerFound(responses[1])
    /\ responses[2] = Failed("timeout")
    /\ processed_movies[1].source = "OMDb"
    /\ processed_movies[2].source = "Not Found"

NamedGenres == Range(default_genres) \ {UnknownGenre}

\* record k of the batch is in bucket g of the genre map
InBucket(map, g, k) == \E p \in DOMAIN map[g] : map[g][p] = k

IsLookup(op) == op \in {"classify_movies.iteration", "search_single_movie"}

\* C8: a lookup that gave the Not Found placeholder leaves the movies table as
\* it was; the table changes only in a lookup that was found; and a found
\* lookup whose write succeeds leaves a row for its (title, year).
C8_OnlyFoundIsStored ==
    [][/\ (IsLookup(last'.op) /\ last'.movie_data.source = "Not Found") =>
              (movies' = movies /\ seq_movies' = seq_movies)
       /\ movies' # movies =>
              (IsLookup(last'.op) /\ last'.movie_data.source # "Not Found")
       /\ (IsLookup(last'.op) /\ last'.movie_data.source # "Not Found"
             /\ last'.called /\ ~last'.ret.none) =>
              \E r \in movies' : /\ r.id = last'.ret.id
                                 /\ r.title = last'.movie_data.title
                                 /\ r.year = last'.movie_data.year]_vars

\* a single search that was not found, for a title the table holds a row of
C8_Witness ==
    /\ last.op = "search_single_movie"
    /\ last.movie_data.source = "Not Found"
    /\ ~last.called
    /\ \E r \in movies : r.title = last.movie_data.title

\* the number of answers of the batch that were a match
FoundAnswersOf(rs) == Cardinality({k \in DOMAIN rs : AnswerFound(rs[k])})

\* C9: after classify_movies over a non-empty batch, get_statistics reports
\* total_movies = number of input titles, found_movies = number of records whose
\* source is not 'Not Found', not_found_movies = total - found and
\* success_rate = found / total * 100.
C9_StatisticsCounts ==
    (last.op = "get_statistics" /\ movie_titles # <<>>) =>
        /\ last.ret.kind = "stats"
        /\ last.ret.total_movies = Len(movie_titles)
        /\ last.ret.found_movies = FoundAnswersOf(responses)
        /\ last.ret.not_found_movies = Len(movie_titles) - FoundAnswersOf(responses)
        /\ last.ret.success_rate.num * Len(movie_titles)
              = FoundAnswersOf(responses) * 100 * last.ret.success_rate.den

\* one found and one not found: total 2, found 1, success rate 50
C9_Witness ==
    /\ last.op = "get_statistics"
    /\ Len(movie_titles) = 2
    /\ AnswerFound(responses[1])
    /\ responses[2] = Ok(BodyNotFound)
    /\ last.ret.total_movies = 2
    /\ last.ret.found_movies = 1
    /\ last.ret.not_found_movies = 1
    /\ last.ret.success_rate.num = 50 * last.ret.success_rate.den

\* C10: processed_movies is empty when classify_movies enters its loop, and
\* what get_statistics returns is the aggregate of the lookup results of the
\* most recent batch alone: no record of an earlier batch and no row of the
\* movies table contributes.
C10_StatisticsOfLastBatchOnly ==
    /\ (pc = "running" /\ i = 0) => processed_movies = <<>>
    /\ last.op = "classify_movies.enter" => processed_movies = <<>>
    /\ last.op = "get_statistics" => last.ret = StatisticsOf(BatchRecords)

\* the table holds a row an earlier batch stored, the last batch found nothing
C10_Witness ==
    /\ last.op = "get_statistics"
    /\ last.ret.kind = "stats"
    /\ last.ret.total_movies = 1
    /\ last.ret.found_movies = 0
    /\ \E r \in movies : r.director = Str(<<"Lana Wachowski">>)


-----------------------------------------------------------------------------
(* Properties of the rating statistics *)

\* the position p of pm holds a found record whose rating is a number
HasNumericRating(pm, p) ==
    /\ pm[p].source # "Not Found"
    /\ pm[p].rating.k = "str"
    /\ ParseFloat(pm[p].rating.s).ok

\* the five buckets by their bounds in hundredths: lo <= r < hi, the top one to 10
HistogramBuckets ==
    {[name |-> "Bad (0-2.9)", lo |-> 0, hi |-> 300],
     [name |-> "Poor (3-4.9)", lo |-> 300, hi |-> 500],
     [name |-> "Average (5-6.9)", lo |-> 500, hi |-> 700],
     [name |-> "Good (7-8.9)", lo |-> 700, hi |-> 900],
     [name |-> "Excellent (9-10)", lo |-> 900, hi |-> 1001]}

\* C11: get_statistics counts every found record with a numeric rating r,
\* 0 <= r <= 10, in exactly one of five buckets with boundaries 3, 5, 7, 9, lower
\* bound inclusive, upper bound exclusive, the top bucket including 10: each
\* bucket's count is the number of such records within its bounds, and the five
\* counts add up to the number of such records.
C11_RatingHistogram ==
    (last.op = "get_statistics" /\ last.ret.kind = "stats") =>
        LET pm == processed_movies
            numeric == {p \in DOMAIN pm : HasNumericRating(pm, p)}
            hist == last.ret.rating_categories
        IN  /\ DOMAIN hist = {b.name : b \in HistogramBuckets}
            /\ \A b \in HistogramBuckets :
                   hist[b.name] = Cardinality({p \in numeric :
                                      /\ b.lo <= ParseFloat(pm[p].rating.s).v
                                      /\ ParseFloat(pm[p].rating.s).v < b.hi})
            /\ \A p \in numeric :
                   Cardinality({b \in HistogramBuckets :
                                   /\ b.lo <= ParseFloat(pm[p].rating.s).v
                                   /\ ParseFloat(pm[p].rating.s).v < b.hi}) = 1
            /\ hist["Bad (0-2.9)"] + hist["Poor (3-4.9)"] + hist["Average (5-6.9)"]
                   + hist["Good (7-8.9)"] + hist["Excellent (9-10)"] = Cardinality(numeric)

\* statistics of a batch of ratings 9.0 and 6.99: one in '9-10', one in '5-6.9'
C11_Witness ==
    /\ last.op = "get_statistics"
    /\ Len(processed_movies) = 2
    /\ processed_movies[1].rating = Str(<<"9", ".", "0">>)
    /\ processed_movies[2].rating = Str(<<"6", ".", "9", "9">>)
    /\ last.ret.kind = "stats"
    /\ last.ret.rating_categories["Excellent (9-10)"] = 1
    /\ last.ret.rating_categories["Average (5-6.9)"] = 1

\* the record carries no rating: the field is missing, None or the empty string
RatingMissing(movie) == movie.rating.k # "str" \/ movie.rating.s = <<>>

\* the positions, in list order, of the found records whose rating is neither
\* missing nor 'N/A'
RECURSIVE CountedRefs(_, _)
CountedRefs(pm, from) ==
    IF from > Len(pm) THEN <<>>
    ELSE (IF /\ pm[from].source # "Not Found"
             /\ ~RatingMissing(pm[from])
             /\ pm[from].rating # Str(<<"N/A">>)
          THEN <<from>> ELSE <<>>) \o CountedRefs(pm, from + 1)

\* C12: a found record is left out of the rating statistics (rating_data,
\* total_ratings, histogram, top-rated list) exactly when its rating is missing or
\* 'N/A'; a found record rated 0.0 is counted, in total_ratings and in the lowest
\* bucket; a not-found record never contributes.
C12_RatedExactlyWhenPresent ==
    (last.op = "get_statistics" /\ last.ret.kind = "stats") =>
        LET pm == processed_movies
            counted == CountedRefs(pm, 1)
            zeros == {p \in DOMAIN counted : ParseFloat(pm[counted[p]].rating.s).v = 0}
            hist == last.ret.rating_categories
        IN  /\ last.ret.total_ratings = Len(counted)
            /\ last.ret.rating_data =
                   [p \in DOMAIN counted |-> ParseFloat(pm[counted[p]].rating.s).v]
            /\ Range(last.ret.top_rated_movies) \subseteq Range(counted)
            /\ Len(counted) <= TopN => Range(last.ret.top_rated_movies) = Range(counted)
            /\ hist["Bad (0-2.9)"] + hist["Poor (3-4.9)"] + hist["Average (5-6.9)"]
                   + hist["Good (7-8.9)"] + hist["Excellent (9-10)"] = Len(counted)
            /\ hist["Bad (0-2.9)"] >= Cardinality(zeros)

\* statistics of a batch of a found record rated 0.0 and a found record rated 'N/A'
C12_Witness ==
    /\ last.op = "get_statistics"
    /\ Len(processed_movies) = 2
    /\ processed_movies[1].rating = Str(<<"0", ".", "0">>)
    /\ processed_movies[2].rating = Str(<<"N/A">>)
    /\ last.ret.kind = "stats"
    /\ last.ret.total_ratings = 1
    /\ last.ret.rating_categories["Bad (0-2.9)"] = 1
    /\ last.ret.top_rated_movies = <<1>>

\* C13: top_rated_movies holds min(5, number of found and rated records) records,
\* each found and rated, no record twice, in non-increasing order of rating; no
\* record left out is rated higher than one included; records of equal rating
\* are in the order of the batch.
C13_TopRated ==
    (last.op = "get_statistics" /\ last.ret.kind = "stats") =>
        LET pm == processed_movies
            rated == {p \in DOMAIN pm : HasNumericRating(pm, p)}
            top == last.ret.top_rated_movies
            R(p) == ParseFloat(pm[p].rating.s).v
        IN  /\ Len(top) = (IF Cardinality(rated) < 5 THEN Cardinality(rated) ELSE 5)
            /\ Range(top) \subseteq rated
            /\ \A a, b \in DOMAIN top : a # b => top[a] # top[b]
            /\ \A a, b \in DOMAIN top : a < b => R(top[a]) >= R(top[b])
            /\ \A p \in rated \ Range(top) : \A a \in DOMAIN top : R(p) <= R(top[a])
            /\ \A a, b \in DOMAIN top : (a < b /\ R(top[a]) = R(top[b])) => top[a] < top[b]
            /\ \A p \in rated \ Range(top) :
                   \A a \in DOMAIN top : R(p) = R(top[a]) => top[a] < p

\* six found and rated records, the first two and the last of equal rating: the
\* last is the one left out
C13_Witness ==
    /\ last.op = "get_statistics"
    /\ Len(processed_movies) = 6
    /\ \A p \in 1..6 : processed_movies[p].rating.k = "str"
                          /\ processed_movies[p].rating # Str(<<"N/A">>)
    /\ processed_movies[1].title = Str(<<"B">>)
    /\ processed_movies[2].title = Str(<<"A">>)
    /\ processed_movies[5].title = Str(<<"C">>)
    /\ processed_movies[6].title = Str(<<"A">>)
    /\ last.ret.kind = "stats"
    /\ Len(last.ret.top_rated_movies) = 5
    /\ last.ret.top_rated_movies[1] = 5
    /\ 6 \notin Range(last.ret.top_rated_movies)


\* C14 as stated: when the most recent batch has no record (classify_movies was
\* called with an empty list, or never called) get_statistics returns an aggregate
\* whose total count, success rate and mean rating are 0; when a batch with
\* records has no found and rated record, the mean rating is 0.
C14_EmptyBatchYieldsZeros ==
    last.op = "get_statistics" =>
        /\ processed_movies = <<>> =>
               /\ last.ret.kind = "stats"
               /\ last.ret.total_movies = 0
               /\ last.ret.success_rate.num = 0
               /\ last.ret.average_rating = 0
        /\ (processed_movies # <<>> /\ CountedRefs(processed_movies, 1) = <<>>) =>
               /\ last.ret.kind = "stats"
               /\ last.ret.average_rating = 0

\* C14 amended: when the most recent batch has no record, get_statistics returns
\* the empty dict, which has no total count, success rate or mean rating; when a
\* batch with records has no found and rated record, the mean rating is 0.
C14_EmptyBatchYieldsEmptyDict ==
    last.op = "get_statistics" =>
        /\ processed_movies = <<>> => last.ret = [kind |-> "empty"]
        /\ (processed_movies # <<>> /\ CountedRefs(processed_movies, 1) = <<>>) =>
               /\ last.ret.kind = "stats"
               /\ last.ret.total_movies = Len(processed_movies)
               /\ last.ret.average_rating = 0
               /\ last.ret.total_ratings = 0

\* get_statistics after classify_movies([]) has returned
C14_Witness ==
    /\ last.op = "get_statistics"
    /\ classified_movies = EmptyGenreMap
    /\ movie_titles = <<>>
    /\ processed_movies = <<>>
    /\ last.ret.kind = "empty"


-----------------------------------------------------------------------------
(* Properties of the normalization in get_movie_data *)

\* the part of s before the first en dash, s itself when it has none
RECURSIVE FirstComponent(_)
FirstComponent(s) ==
    IF s = <<>> \/ Head(s) = EnDash THEN <<>> ELSE <<Head(s)>> \o FirstComponent(Tail(s))

\* C15: on a successful lookup the record's year is the first component of a
\* provider year that is a range 'A<en dash>B' ("2010<en dash>2012" yields "2010"),
\* the provider year itself when it is a plain year, and "Unknown" when the
\* provider gave no year.
C15_YearIsFirstComponent ==
    (last.op = "get_movie_data" /\ last.ret.source # "Not Found") =>
        LET Year == last.answer.body.Year
        IN  last.ret.year = (IF Year.k = "absent" THEN Str(<<"Unknown">>)
                             ELSE Str(FirstComponent(Year.s)))

\* the number of times the delimiter ', ' occurs in s
Delimiters(s) == Cardinality({p \in 1..(Len(s) - 1) : s[p] = "," /\ s[p + 1] = " "})

\* C16: on a successful lookup the genre list is the provider's genre string cut
\* at every ', ': as many entries as delimiters plus one, none holding a
\* delimiter, in the order of the string, so that joining the list with ', ', as
\* add_movie does for the genres column, gives back the provider's string; a
\* missing or empty genre string gives the empty list, which is stored as ''.
C16_GenresSplitAndRejoin ==
    (last.op = "get_movie_data" /\ last.ret.source # "Not Found") =>
        LET Genre == last.answer.body.Genre
            genres == last.ret.genres
            column == MovieRow(1, last.ret, 0).genres
        IN  IF Genre.k = "str" /\ Genre.s # <<>>
            THEN /\ Len(genres) = Delimiters(Genre.s) + 1
                 /\ \A p \in DOMAIN genres : Delimiters(genres[p]) = 0
                 /\ Join(genres, <<",", " ">>) = Genre.s
                 /\ column = Genre
            ELSE /\ genres = <<>>
                 /\ column = Str(<<>>)

\* "Action, Adventure" has become ["Action", "Adventure"]
C16_Witness ==
    /\ last.op = "get_movie_data"
    /\ last.answer.body.Genre = Str(<<"Action", ",", " ", "Adventure">>)
    /\ last.ret.genres = << <<"Action">>, <<"Adventure">> >>


-----------------------------------------------------------------------------
(* Properties of the progress callback *)

IsCallback(e) == e.e = "callback"

\* the positions in events at which event e of title n is recorded
PositionsOf(e, n) == {q \in DOMAIN events : events[q].e = e /\ events[q].n = n}

\* the callback has been invoked with (1, N), ..., (i, N), in that order, and with
\* nothing else; N times once the call has returned
CallbacksInOrder ==
    LET N == Len(movie_titles)
        calls == SelectSeq(events, IsCallback)
    IN  /\ Len(calls) = i
        /\ \A k \in 1..i : calls[k] = Event("callback", k, N)
        /\ last.op = "classify_movies" => Len(calls) = N

\* C17 as stated: in classify_movies with a progress callback over N titles the
\* callback is invoked exactly N times, with (1, N), (2, N), ..., (N, N) in that
\* order, and the invocation (i, N) comes after the lookup of the i-th title has
\* returned.
C17_CallbackAfterLookup ==
    (progress_callback /\ (pc = "running" \/ last.op = "classify_movies")) =>
        /\ CallbacksInOrder
        /\ \A k \in 1..i :
               \A c \in PositionsOf("callback", k) :
                   \E r \in PositionsOf("request", k) : r < c

\* C17 amended: the callback is invoked exactly N times, with (1, N), ..., (N, N)
\* in that order, and the invocation (i, N) comes right before the lookup of the
\* i-th title, after the lookup and the delay of the (i-1)-th: when the observer
\* sees (N, N), the lookup of the N-th title is still to be made.
C17_CallbackBeforeLookup ==
    (progress_callback /\ (pc = "running" \/ last.op = "classify_movies")) =>
        /\ CallbacksInOrder
        /\ \A k \in 1..i :
               \A c \in PositionsOf("callback", k) :
                   /\ PositionsOf("request", k) = {c + 1}
                   /\ k > 1 => PositionsOf("sleep", k - 1) = {c - 1}
                   /\ k > 1 => \E r \in PositionsOf("request", k - 1) : r < c

\* a batch of two titles with a callback has returned
C17_Witness ==
    /\ last.op = "classify_movies"
    /\ progress_callback
    /\ Len(movie_titles) = 2
    /\ events[1] = Event("callback", 1, 2)
    /\ events[2] = Event("request", 1, 2)
    /\ events[4] = Event("callback", 2, 2)
    /\ events[5] = Event("request", 2, 2)


-----------------------------------------------------------------------------
(* Properties of error handling *)

\* the rating of a found record is present, not 'N/A', and no number
RatingUnparseable(movie) ==
    /\ movie.source # "Not Found"
    /\ ~RatingMissing(movie)
    /\ movie.rating # Str(<<"N/A">>)
    /\ ~ParseFloat(movie.rating.s).ok

\* C18: no item's bad data makes classify_movies or a following get_statistics
\* raise: whatever the provider answered for a found record, a rating that is
\* present, not 'N/A' and not a number included, classify_movies processes every
\* title and get_statistics returns an aggregate in which only that item's rating
\* is left out.
C18_BadRatingIsSkipped ==
    /\ last.op = "classify_movies" => Len(processed_movies) = Len(movie_titles)
    /\ (last.op = "get_statistics" /\ processed_movies # <<>>) =>
           LET pm == processed_movies
               numeric == {p \in DOMAIN pm : HasNumericRating(pm, p)}
           IN  /\ last.ret.kind = "stats"
               /\ last.ret.total_movies = Len(pm)
               /\ last.ret.total_ratings = Cardinality(numeric)
               /\ Range(last.ret.top_rated_movies) = numeric

\* the write of add_movie for this record and this storage fault fails
WriteFails(movie_data, fault) == fault # "none" \/ RatingUnparseable(movie_data)

\* C19: when the write of add_movie fails, for whatever reason (a storage error,
\* a rating that is no number), add_movie returns None and the movies table is as
\* before the call; a classify_movies batch in progress goes on: the record is
\* appended to the batch list and filed in its genre buckets, and once the call
\* has returned every title has its record.
C19_FailedWriteIsReported ==
    /\ [][(last'.op = "classify_movies.iteration" /\ last'.called
             /\ WriteFails(last'.movie_data, last'.fault)) =>
              /\ last'.ret = RetNone
              /\ movies' = movies
              /\ seq_movies' = seq_movies
              /\ pc' = "running"
              /\ i' = i + 1
              /\ processed_movies' = Append(processed_movies, last'.movie_data)
              /\ \A g \in Range(last'.movie_data.genres) :
                     LET key == IF g \in Range(default_genres) THEN g ELSE UnknownGenre
                     IN  /\ Len(classified_movies'[key]) > Len(classified_movies[key])
                         /\ classified_movies'[key][Len(classified_movies'[key])]
                                = Len(processed_movies')]_vars
    /\ [](last.op = "classify_movies" =>
              /\ Len(processed_movies) = Len(movie_titles)
              /\ \A k \in 1..Len(movie_titles) : processed_movies[k] = BatchRecords[k])

\* a batch whose first write failed on the record's rating and whose second title
\* was found and stored has returned
C19_Witness ==
    /\ last.op = "classify_movies"
    /\ Len(processed_movies) = 2
    /\ RatingUnparseable(processed_movies[1])
    /\ processed_movies[2].source # "Not Found"
    /\ classified_movies[<<"Drama">>] = <<1>>
    /\ Cardinality(movies) = 1
    /\ \A r \in movies : r.title = processed_movies[2].title


-----------------------------------------------------------------------------
(* Properties of the watchlist queries *)

\* C20: after any sequence of add_movie, create_watchlist, add_to_watchlist and
\* delete_watchlist calls, the movie count get_watchlists reports for a watchlist
\* is the number of movies get_watchlist_movies returns for it, 0 for a watchlist
\* without members.
C20_CountMatchesMembers ==
    \A w \in get_watchlists :
        w.movie_count = Cardinality(get_watchlist_movies(w.id))


-----------------------------------------------------------------------------
(* Properties of the catalog queries *)

\* q occurs in s, letters compared without regard to case
OccursIn(q, s) ==
    \E p \in 1..(Len(s) - Len(q) + 1) :
        \A k \in 1..Len(q) : Lower(s[p + k - 1]) = Lower(q[k])

FieldHas(column, q) == column.k = "str" /\ OccursIn(q, column.s)

\* C21: search_movies(q) returns exactly the stored movies in whose title,
\* genre string, director or actors field q occurs as a substring, compared
\* without regard to case, each once, in non-increasing order of stored rating;
\* a movie in none of whose four fields q occurs is not returned.
C21_SearchIsSubstringMatch ==
    last.op = "search_movies" =>
        LET q == last.query
            ret == last.ret
        IN  /\ Range(ret) = {r \in movies : \/ FieldHas(r.title, q)
                                            \/ FieldHas(r.genres, q)
                                            \/ FieldHas(r.director, q)
                                            \/ FieldHas(r.actors, q)}
            /\ \A a, b \in DOMAIN ret : a # b => ret[a] # ret[b]
            /\ \A a, b \in DOMAIN ret : a < b => ret[a].rating >= ret[b].rating


\* C22: get_all_movies returns every stored movie exactly once, newest first: of
\* any two stored rows the one whose latest upsert completed later (the one with
\* the higher id: every write takes the next id) comes earlier in the result,
\* also when the two were written shortly after one another.
C22_NewestFirst ==
    last.op = "get_all_movies" =>
        LET ret == last.ret
        IN  /\ Range(ret) = movies
            /\ Len(ret) = Cardinality(movies)
            /\ \A a, b \in DOMAIN ret : a < b => ret[a].id > ret[b].id


-----------------------------------------------------------------------------
(* Properties of the request schedule *)

IsRequest(e) == e.e = "request"

IsSleep(e) == e.e = "sleep"

\* C23: classify_movies sends one provider request per title occurrence, one at
\* a time in input order, each followed by one pacing delay whatever it came
\* back with: a failed lookup is not retried, and a title that occurs twice, or
\* was looked up by an earlier call, is requested again.
C23_OneRequestPerTitle ==
    (pc = "running" \/ last.op = "classify_movies") =>
        LET N == Len(movie_titles)
            requests == SelectSeq(events, IsRequest)
            sleeps == SelectSeq(events, IsSleep)
        IN  /\ Len(requests) = i
            /\ Len(sleeps) = i
            /\ Len(responses) = i
            /\ \A k \in 1..i :
                   /\ requests[k] = Event("request", k, N)
                   /\ sleeps[k] = Event("sleep", k, N)
                   /\ \A r \in PositionsOf("request", k) :
                          /\ r < Len(events)
                          /\ events[r + 1] = Event("sleep", k, N)
            /\ last.op = "classify_movies" => i = N

\* a batch of the same title twice has returned: the first lookup failed, the
\* second was found, and two requests were sent
C23_Witness ==
    /\ last.op = "classify_movies"
    /\ movie_titles = << <<"Matrix">>, <<"Matrix">> >>
    /\ responses = <<Failed("timeout"), Ok(BodyMatrix)>>
    /\ Len(SelectSeq(events, IsRequest)) = 2
    /\ processed_movies[1].source = "Not Found"
    /\ processed_movies[2].source = "OMDb"


-----------------------------------------------------------------------------
(* Properties of the store's integrity *)

WatchlistExists(watchlist_id) == \E w \in watchlists : w.id = watchlist_id

MovieExists(movie_id) == \E m \in movies : m.id = movie_id

\* C24: in every reachable state of the store every watchlist_items row refers
\* to a watchlist and to a movie that exist; a movie that is a member of a
\* watchlist is still listed by get_watchlist_movies once the same (title, year)
\* has been upserted again; add_to_watchlist with an id that names no watchlist
\* or no movie creates no membership row.
C24_ReferentialIntegrity ==
    /\ \A it \in watchlist_items :
           WatchlistExists(it.watchlist_id) /\ MovieExists(it.movie_id)
    /\ (last.op = "add_movie" /\ ~last.ret.none) =>
           \A r \in last.replaced : \A it \in watchlist_items :
               it.movie_id = r.id =>
                   \E m \in get_watchlist_movies(it.watchlist_id) :
                       m.title = r.title /\ m.year = r.year
    /\ (last.op = "add_to_watchlist"
          /\ ~(WatchlistExists(last.watchlist_id) /\ MovieExists(last.movie_id))) =>
           /\ last.ret = FALSE
           /\ ItemsOf(watchlist_items, last.watchlist_id, last.movie_id) = {}

\* C25: delete_watchlist is all or nothing: when it returns False the store is
\* as before the call; membership rows of a watchlist never go while the
\* watchlist's row stays; on an id that names no watchlist it returns True and
\* changes nothing.
C25_DeleteIsAtomic ==
    [][/\ (last'.op = "delete_watchlist" /\ last'.ret = FALSE) => UNCHANGED dbVars
       /\ \A w \in watchlists' :
              {it \in watchlist_items : it.watchlist_id = w.id} \subseteq watchlist_items'
       /\ (last'.op = "delete_watchlist" /\ last'.fault = "none"
             /\ ~WatchlistExists(last'.watchlist_id)) =>
              (last'.ret = TRUE /\ UNCHANGED dbVars)]_vars


-----------------------------------------------------------------------------
(* Properties of the genre map *)

\* the number of times ref occurs in bucket
Occurrences(bucket, ref) == Cardinality({p \in DOMAIN bucket : bucket[p] = ref})

\* C26: in the genre map classify_movies returns, the record of one input title
\* is at most once in any bucket, the 'Unknown' bucket included when the record
\* names several genres outside the recognized set; so no bucket is larger than
\* the number of input titles.
C26_OncePerBucket ==
    last.op = "classify_movies" =>
        \A g \in DOMAIN last.ret :
            /\ \A ref \in 1..Len(processed_movies) : Occurrences(last.ret[g], ref) <= 1
            /\ Len(last.ret[g]) <= Len(movie_titles)


\* genre_counts[g], taken as 0 when g is no key of it
CountOf(genre_counts, g) == IF g \in DOMAIN genre_counts THEN genre_counts[g] ELSE 0

\* the counts of the recognized genres other than 'Unknown' are the sizes of
\* their buckets
CountsMatchBuckets(stats, map) ==
    \A g \in Range(default_genres) \ {UnknownGenre} :
        CountOf(stats.genre_counts, g) = Len(map[g])

\* C27 as stated: after classify_movies, unknown_genres of get_statistics is the
\* number of distinct records in the 'Unknown' bucket of the returned map, and
\* for every recognized genre g other than 'Unknown' genre_counts[g], 0 when
\* absent, is the size of bucket g.
C27_StatisticsMatchMap ==
    (last.op = "get_statistics" /\ last.ret.kind = "stats") =>
        /\ last.ret.unknown_genres = Cardinality(Range(classified_movies[UnknownGenre]))
        /\ CountsMatchBuckets(last.ret, classified_movies)

\* C27 amended: unknown_genres is the number of records of the batch whose genre
\* list is empty or exactly ['Unknown']; each of them is in the 'Unknown' bucket,
\* which also holds the records that name a genre outside the recognized set, so
\* unknown_genres is at most the number of distinct records in that bucket; for
\* every recognized genre g other than 'Unknown' genre_counts[g], 0 when absent,
\* is the size of bucket g.
C27_UnknownCountWithinBucket ==
    (last.op = "get_statistics" /\ last.ret.kind = "stats") =>
        LET pm == processed_movies
            bare == {p \in DOMAIN pm : pm[p].genres = <<>> \/ pm[p].genres = << <<"Unknown">> >>}
            filed == Range(classified_movies[UnknownGenre])
        IN  /\ last.ret.unknown_genres = Cardinality(bare)
            /\ bare \subseteq filed
            /\ filed \ bare = {p \in DOMAIN pm : /\ p \notin bare
                                                 /\ \E g \in Range(pm[p].genres) :
                                                        g \notin Range(default_genres) \ {UnknownGenre}}
            /\ last.ret.unknown_genres <= Cardinality(filed)
            /\ CountsMatchBuckets(last.ret, classified_movies)

\* statistics of a batch of a record that names genres outside the recognized set
\* and a lookup that failed: one record counted, two in the bucket
C27_Witness ==
    /\ last.op = "get_statistics"
    /\ last.ret.kind = "stats"
    /\ Len(processed_movies) = 2
    /\ processed_movies[1].genres = << <<"Drama">>, <<"Biography">>, <<"Sci-Fi">> >>
    /\ processed_movies[2].source = "Not Found"
    /\ last.ret.unknown_genres = 1
    /\ Range(classified_movies[UnknownGenre]) = {1, 2}
    /\ last.ret.genre_counts[<<"Drama">>] = 1


-----------------------------------------------------------------------------
(* Properties of the single search *)

\* C28: search_single_movie writes the record to the movies table when and only
\* when the lookup is Found, returns the record looked up, and leaves the list of
\* the last batch as it was, so that get_statistics returns the same aggregate
\* before and after it.
C28_SingleSearchFrame ==
    [][last'.op = "search_single_movie" =>
          LET found == AnswerFound(last'.answer)
              movie_data == last'.movie_data
          IN  /\ found <=> movie_data.source # "Not Found"
              /\ found => /\ movie_data.omdb = SomeData(last'.answer.body)
                          /\ movie_data.title
                                 = Get(last'.answer.body, "Title", Str(last'.movie_title))
              /\ ~found => IsPlaceholder(movie_data, last'.movie_title)
              /\ last'.called <=> found
              /\ ~found => (movies' = movies /\ seq_movies' = seq_movies)
              /\ (found /\ last'.fault = "none") =>
                     /\ ~last'.ret.none
                     /\ \E r \in movies' : /\ r.id = last'.ret.id
                                           /\ HoldsValuesOf(r, movie_data)
                     /\ \A r \in movies' :
                            (r.title = movie_data.title /\ r.year = movie_data.year)
                                => r.id = last'.ret.id
              /\ processed_movies' = processed_movies
              /\ classified_movies' = classified_movies
              /\ StatisticsOf(processed_movies') = StatisticsOf(processed_movies)]_vars

\* a single search that was found and stored, after a batch of one title that
\* was not found: the statistics still count one movie, none found
C28_Witness ==
    /\ last.op = "search_single_movie"
    /\ last.movie_data.source = "OMDb"
    /\ ~last.ret.none
    /\ Cardinality(movies) = 1
    /\ Len(processed_movies) = 1
    /\ processed_movies[1].source = "Not Found"
    /\ get_statistics.kind = "stats"
    /\ get_statistics.found_movies = 0


-----------------------------------------------------------------------------
(* Properties of the title validation *)

\* the title holds a character that is no whitespace
HasContent(title) == \E p \in DOMAIN title : title[p] \notin Whitespace

IsBlank(title) == ~HasContent(title)

\* C29: validate_movie_titles partitions its input: every entry is in exactly
\* one of the two lists, both keep the input's order, a valid title is not empty
\* and neither starts nor ends with whitespace, an invalid entry is empty or all
\* whitespace; the batch page hands the valid list and nothing else to
\* classify_movies, and invalid entries do not keep the valid ones from being
\* processed.
C29_ValidationPartitions ==
    LET kept == SelectSeq(batch_movies, HasContent)
        dropped == SelectSeq(batch_movies, IsBlank)
    IN  /\ last.op = "render_batch_classification" =>
               LET valid == last.valid_titles
                   invalid == last.invalid_titles
               IN  /\ Len(valid) + Len(invalid) = Len(batch_movies)
                   /\ Len(valid) = Len(kept)
                   /\ \A k \in DOMAIN valid :
                          /\ valid[k] = Strip(kept[k])
                          /\ valid[k] # <<>>
                          /\ Head(valid[k]) \notin Whitespace
                          /\ valid[k][Len(valid[k])] \notin Whitespace
                   /\ invalid = dropped
                   /\ last.classify <=> kept # <<>>
                   /\ last.classify => (pc = "running" /\ movie_titles = valid)
        /\ (pc = "running" \/ last.op = "classify_movies") =>
               /\ Len(movie_titles) = Len(kept)
               /\ \A k \in DOMAIN movie_titles : movie_titles[k] = Strip(kept[k])
        /\ last.op = "classify_movies" =>
               /\ Len(processed_movies) = Len(kept)
               /\ \A k \in DOMAIN kept :
                      processed_movies[k] = get_movie_data(Strip(kept[k]), responses[k])

\* the page has processed a blank entry, a padded title and an empty entry: one
\* title was looked up, under its trimmed name
C29_Witness ==
    /\ last.op = "classify_movies"
    /\ batch_movies = << <<" ", "\t">>, <<" ", "Zzz", " ">>, <<>> >>
    /\ movie_titles = << <<"Zzz">> >>
    /\ Len(processed_movies) = 1
    /\ processed_movies[1].title = Str(<<"Zzz">>)


-----------------------------------------------------------------------------
(* Properties of the login *)

\* C30: the main application is on screen only while the session's
\* authenticated flag is true; the flag turns true only through a login whose
\* username exists and whose password's SHA-256 hash is the stored one, or through
\* the demo button; a login with an unknown username, a wrong password or an
\* empty field leaves the session unauthenticated with no current_user; a signup
\* under a username that exists leaves that user's stored credentials alone.
C30_AuthenticationGate ==
    /\ [](/\ session.screen = "main" => session.authenticated
          /\ ~session.authenticated => session.current_user = Absent)
    /\ [][/\ (~session.authenticated /\ session'.authenticated) =>
                 \/ last'.op = "demo_login"
                 \/ /\ last'.op = "login"
                    /\ last'.username \in DOMAIN session.users
                    /\ session.users[last'.username].password
                           = [sha256 |-> last'.password]
                    /\ session'.current_user = Str(last'.username)
          /\ (last'.op = "login"
                /\ \/ last'.username = <<>>
                   \/ last'.password = <<>>
                   \/ last'.username \notin DOMAIN session.users
                   \/ session.users[last'.username].password
                          # [sha256 |-> last'.password]) =>
                 (~session'.authenticated /\ session'.current_user = Absent
                     /\ session'.screen = "auth")
          /\ \A u \in DOMAIN session.users :
                 u \in DOMAIN session'.users /\ session'.users[u] = session.users[u]
          /\ (last'.op = "signup" /\ last'.username \in DOMAIN session.users) =>
                 session'.users = session.users]_vars

\* ann has signed up and logged in with her password: the main application is
\* on screen
C30_Witness ==
    /\ last.op = "login"
    /\ last.username = <<"ann">>
    /\ session.authenticated
    /\ session.current_user = Str(<<"ann">>)
    /\ session.screen = "main"
    /\ DemoUser \in DOMAIN session.users

====
